---- MODULE Spec2Model ----
(***************************************************************************)
(* NutriSaarthi: the nutrition analytics and recommendation engine.        *)
(*                                                                         *)
(* Time is counted in whole hours since the epoch (UTC).  A Date object is *)
(* an instant; the server's zone is a fixed offset tz (hours east of UTC). *)
(* A 'YYYY-MM-DD' string is modelled by its UTC day number.                *)
(***************************************************************************)
EXTENDS Integers, Sequences, FiniteSets, Bags, TLC

VARIABLES
    users,      \* the User collection: user id -> document
    meals,      \* the Meal collection: a set of documents
    nextId,     \* next document id handed out by Meal.create
    tz,         \* the server's time-zone offset, hours east of UTC
    now,        \* the server clock (new Date()), hours since the epoch
    resp,       \* the response of the last request handled
    pending,    \* the generateDailyRecommendations call awaiting the store, if any
    inflight,   \* the request each client has in flight at the server, if any
    issued,     \* the tokens the server has handed to clients
    authStore,  \* the client's auth store (zustand state)
    water,      \* the WaterIntake collection: a set of documents
    cache       \* the Redis response cache: connection flag and stored entries

vars == <<users, meals, nextId, tz, now, resp, pending, inflight, issued, authStore, water, cache>>

-----------------------------------------------------------------------------
(* Bounds and input sets                                                   *)

MaxMeals == 2

HoursPerDay == 24

Users == {"u1", "u2"}

MealTypes == {"breakfast", "lunch", "dinner", "snack"}

TzOffsets == {-5, 0, 5}

\* the clock at start: day 100, 13:00 UTC
Now0 == 100 * HoursPerDay + 13

\* consumedAt values a client sends: day 100 at 02:00 and at 21:00 UTC, and
\* day 94 (the first day of the 7-day window) at 01:00 UTC
MealTimes == {Now0 - 11, Now0 + 8, Now0 - 6 * HoursPerDay - 12}

Nutr(c, p, cb, f, fi, su, so) ==
    [calories |-> c, protein |-> p, carbs |-> cb, fat |-> f,
     fiber |-> fi, sugar |-> su, sodium |-> so]

\* nutrition vectors a client sends
MealNutritions == {Nutr(500, 20, 60, 15, 5, 10, 300), Nutr(300, 7, 40, 11, 3, 2, 100)}

\* the meal types tried when logging into the store
LoggedTypes == {"lunch"}

\* the ?period= values a client sends ("absent": no query parameter)
PeriodQueries == {"7d", "14d", "30d", "90d", "absent"}

NoResp == [op |-> "none"]

\* no call in flight
NoCall == [pc |-> "idle"]

\* the auth store as create() builds it
InitialAuthState ==
    [user |-> "null", token |-> "null", isAuthenticated |-> FALSE, isLoading |-> TRUE,
     error |-> "null"]

\* a connected Redis without entries
EmptyCache == [isConnected |-> TRUE, entries |-> {}]

\* the clients that send requests concurrently
Clients == {"c1", "c2"}

Goals == {"lose-weight", "maintain", "gain-weight", "build-muscle"}

Targets(c, p, cb, f, fi, w) ==
    [calories |-> c, protein |-> p, carbs |-> cb, fat |-> f, fiber |-> fi, water |-> w]

\* a user document as the schema defaults create it
DefaultUser ==
    [dailyTargets |-> Targets(2000, 50, 250, 65, 25, 8),
     profile      |-> [goal |-> "maintain"],
     preferences  |-> [dietType |-> "none"]]

-----------------------------------------------------------------------------
(* Date arithmetic                                                         *)

\* Date.prototype.setHours(0, 0, 0, 0): local midnight of the instant's local day
StartOfDay(t, off) == ((t + off) \div HoursPerDay) * HoursPerDay - off

\* Date.prototype.setHours(23, 59, 59, 999): last instant of the local day
EndOfDay(t, off) == StartOfDay(t, off) + HoursPerDay - 1

\* Date.prototype.setDate(getDate() + k): k local calendar days later, same local time
AddDays(t, k) == t + k * HoursPerDay

\* Date.prototype.toISOString().split('T')[0]: the UTC calendar day of the instant
ISODate(t) == t \div HoursPerDay

\* new Date('YYYY-MM-DD'): UTC midnight of that day
ParseISODate(day) == day * HoursPerDay

-----------------------------------------------------------------------------
(* Aggregation                                                             *)

RECURSIVE SumOver(_, _)
\* $sum: '$nutrition.<field>' over a set of documents
SumOver(S, field) ==
    IF S = {} THEN 0
    ELSE LET m == CHOOSE x \in S : TRUE
         IN  m.nutrition[field] + SumOver(S \ {m}, field)

\* variant: the $match stage without the user filter
MatchRange_AnyUser(docs, userId, lo, hi) ==
    {m \in docs : m.consumedAt >= lo /\ m.consumedAt <= hi}

\* $match { user, consumedAt: { $gte: lo, $lte: hi } }
MatchRange(docs, userId, lo, hi) ==
    {m \in docs : m.user = userId /\ m.consumedAt >= lo /\ m.consumedAt <= hi}

ZeroSummary ==
    [totalCalories |-> 0, totalProtein |-> 0, totalCarbs |-> 0, totalFat |-> 0,
     totalFiber |-> 0, totalSugar |-> 0, totalSodium |-> 0, mealCount |-> 0]

\* $group { _id: null, ... }: one group when anything matched, else no group
GroupAll(matched) ==
    IF matched = {} THEN <<>>
    ELSE << [totalCalories |-> SumOver(matched, "calories"),
             totalProtein  |-> SumOver(matched, "protein"),
             totalCarbs    |-> SumOver(matched, "carbs"),
             totalFat      |-> SumOver(matched, "fat"),
             totalFiber    |-> SumOver(matched, "fiber"),
             totalSugar    |-> SumOver(matched, "sugar"),
             totalSodium   |-> SumOver(matched, "sodium"),
             mealCount     |-> Cardinality(matched)] >>

\* summary[0] || { ...zeros }
FirstOrZero(groups) == IF Len(groups) > 0 THEN groups[1] ELSE ZeroSummary

\* Meal.getDailySummary(userId, date)
getDailySummary(docs, off, userId, date) ==
    LET startOfDay == StartOfDay(date, off)
        endOfDay   == EndOfDay(date, off)
    IN  FirstOrZero(GroupAll(MatchRange(docs, userId, startOfDay, endOfDay)))

-----------------------------------------------------------------------------
(* Dashboard: calorie trends                                               *)

\* const periods = { '7d': 7, '14d': 14, '30d': 30, '90d': 90 }
Periods == [k \in {"7d", "14d", "30d", "90d"} |-> CASE k = "7d" -> 7 [] k = "14d" -> 14
                                                    [] k = "30d" -> 30 [] k = "90d" -> 90]

\* periods[req.query.period] || 7
PeriodDays(q) == IF q \in DOMAIN Periods THEN Periods[q] ELSE 7

\* variant: Math.floor(n / d)
Round_Floor(n, d) == n \div d

\* Math.round(n / d) for d > 0: the nearest integer, halves rounded up
Round(n, d) == (2 * n + d) \div (2 * d)

\* $group { _id: { $dateToString: { format: '%Y-%m-%d', date: '$consumedAt' } }, ... }:
\* one group per UTC calendar day that has a matched document
GroupByDate(matched) ==
    { LET day == {m \in matched : ISODate(m.consumedAt) = k}
      IN  [id |-> k,
           calories  |-> SumOver(day, "calories"),
           protein   |-> SumOver(day, "protein"),
           carbs     |-> SumOver(day, "carbs"),
           fat       |-> SumOver(day, "fat"),
           mealCount |-> Cardinality(day)]
      : k \in {ISODate(m.consumedAt) : m \in matched} }

\* trendMap.get(dateStr) || { _id: dateStr, calories: 0, ..., mealCount: 0 }
TrendMapGet(trends, dateStr) ==
    IF \E t \in trends : t.id = dateStr
    THEN CHOOSE t \in trends : t.id = dateStr
    ELSE [id |-> dateStr, calories |-> 0, protein |-> 0, carbs |-> 0, fat |-> 0,
          mealCount |-> 0]

\* the date string the fill loop gives the point of iteration d
FillDateStr(d) == ISODate(d)

\* the point pushed by the iteration whose loop variable is d
TrendPoint(trends, d) ==
    LET dateStr == FillDateStr(d)
        dayData == TrendMapGet(trends, dateStr)
    IN  [date      |-> dateStr,
         calories  |-> dayData.calories,
         protein   |-> dayData.protein,
         carbs     |-> dayData.carbs,
         fat       |-> dayData.fat,
         mealCount |-> dayData.mealCount]

\* for (let d = new Date(startDate); d <= endDate; d.setDate(d.getDate() + 1)) { push }
\* the i-th iteration runs with d = startDate + (i - 1) days, while d <= endDate
FillTrends(startDate, endDate, trends) ==
    LET iterations == IF startDate <= endDate
                      THEN (endDate - startDate) \div HoursPerDay + 1 ELSE 0
    IN  [i \in 1..iterations |-> TrendPoint(trends, AddDays(startDate, i - 1))]

RECURSIVE SumRange(_, _, _, _)
\* filledTrends.reduce((acc, day) => acc + day[field], 0), over positions lo..hi
SumRange(s, field, lo, hi) ==
    IF lo > hi THEN 0
    ELSE IF lo = hi THEN s[lo][field]
    ELSE LET mid == (lo + hi) \div 2
         IN  SumRange(s, field, lo, mid) + SumRange(s, field, mid + 1, hi)

SumSeq(s, field) == SumRange(s, field, 1, Len(s))

\* the body of the GET /api/dashboard/trends response
getCalorieTrends(docs, off, clock, userId, query) ==
    LET period    == PeriodDays(query)
        endDate   == EndOfDay(clock, off)
        startDate == StartOfDay(AddDays(clock, 1 - period), off)
        trends    == GroupByDate(MatchRange(docs, userId, startDate, endDate))
        filledTrends  == FillTrends(startDate, endDate, trends)
        totalDays     == Len(filledTrends)
        daysWithMeals == Len(SelectSeq(filledTrends, LAMBDA d : d.mealCount > 0))
        totals == [calories |-> SumSeq(filledTrends, "calories"),
                   protein  |-> SumSeq(filledTrends, "protein"),
                   carbs    |-> SumSeq(filledTrends, "carbs"),
                   fat      |-> SumSeq(filledTrends, "fat")]
        denom  == IF daysWithMeals # 0 THEN daysWithMeals ELSE 1
        averages == [calories |-> Round(totals.calories, denom),
                     protein  |-> Round(totals.protein, denom),
                     carbs    |-> Round(totals.carbs, denom),
                     fat      |-> Round(totals.fat, denom)]
    IN  [period    |-> IF query = "absent" THEN "7d" ELSE query,
         days      |-> period,
         startDate |-> ISODate(startDate),
         endDate   |-> ISODate(endDate),
         trends    |-> filledTrends,
         summary   |-> [totalDays |-> totalDays, daysWithMeals |-> daysWithMeals,
                        totals |-> totals, averages |-> averages]]

-----------------------------------------------------------------------------
(* Recommendation service                                                  *)

PRIORITY == [HIGH |-> 3, MEDIUM |-> 2, LOW |-> 1]

CATEGORY ==
    [CALORIE |-> "calorie", PROTEIN |-> "protein", CARBS |-> "carbs", FAT |-> "fat",
     HYDRATION |-> "hydration", MEAL_TIMING |-> "meal_timing", BALANCE |-> "balance",
     GOAL |-> "goal"]

\* one recommendation object; suggestions is <<>> when the object has none,
\* args holds the numbers interpolated into the message
Rec(category, priority, title, action, suggestions, args) ==
    [category |-> category, priority |-> priority, title |-> title,
     action |-> action, suggestions |-> suggestions, args |-> args]

\* (consumed / target) * 100, kept as the exact quotient  n / d
Pct(consumed, target) == [n |-> consumed * 100, d |-> target]

\* pct === 0   (0 / 0 is NaN, x / 0 is Infinity; -0 === 0)
PctIsZero(p) == p.n = 0 /\ p.d # 0

\* pct < k   (false for NaN and for +Infinity); consumed is never negative
PctLT(p, k) ==
    IF p.d > 0 THEN p.n < k * p.d
    ELSE IF p.d = 0 THEN FALSE
    ELSE p.n > k * p.d

\* pct > k   (false for NaN, true for +Infinity)
PctGT(p, k) ==
    IF p.d > 0 THEN p.n > k * p.d
    ELSE IF p.d = 0 THEN p.n > 0
    ELSE p.n < k * p.d

\* pct >= k
PctGE(p, k) ==
    IF p.d > 0 THEN p.n >= k * p.d
    ELSE IF p.d = 0 THEN p.n > 0
    ELSE p.n <= k * p.d

\* pct <= k
PctLE(p, k) ==
    IF p.d > 0 THEN p.n <= k * p.d
    ELSE IF p.d = 0 THEN FALSE
    ELSE p.n >= k * p.d

\* variant: the calorie branches as independent ifs instead of an else-if chain
CalorieRule_NoElse(todaySummary, targets, goal, currentHour) ==
    LET caloriePercentage == Pct(todaySummary.totalCalories, targets.calories)
        overBy == todaySummary.totalCalories - targets.calories
    IN  (IF PctIsZero(caloriePercentage) /\ currentHour >= 10
         THEN << Rec(CATEGORY.CALORIE, PRIORITY.HIGH, "Haven't logged any meals today",
                     "Log your first meal", <<>>, <<>>) >>
         ELSE <<>>)
        \o
        (IF PctLT(caloriePercentage, 30) /\ currentHour >= 14
         THEN << Rec(CATEGORY.CALORIE, PRIORITY.HIGH,
                     "Low calorie intake for this time of day",
                     "Plan your remaining meals", <<>>, <<>>) >>
         ELSE <<>>)
        \o
        (IF PctGT(caloriePercentage, 100)
         THEN IF goal = "lose-weight"
              THEN << Rec(CATEGORY.CALORIE, PRIORITY.HIGH, "Daily calorie target exceeded",
                          "Plan a lighter dinner", <<>>, <<overBy>>) >>
              ELSE << Rec(CATEGORY.CALORIE, PRIORITY.LOW, "Above your calorie target",
                          "null", <<>>, <<overBy>>) >>
         ELSE <<>>)
        \o
        (IF PctGE(caloriePercentage, 80) /\ PctLE(caloriePercentage, 100)
         THEN << Rec(CATEGORY.CALORIE, PRIORITY.LOW, "Great calorie balance!",
                     "null", <<>>, <<>>) >>
         ELSE <<>>)

\* variant: the exceeded branch tested after the 80%-and-above branch, whose
\* upper limit is missing
CalorieRule_BalanceFirst(todaySummary, targets, goal, currentHour) ==
    LET caloriePercentage == Pct(todaySummary.totalCalories, targets.calories)
        overBy == todaySummary.totalCalories - targets.calories
    IN  IF PctIsZero(caloriePercentage) /\ currentHour >= 10
        THEN << Rec(CATEGORY.CALORIE, PRIORITY.HIGH, "Haven't logged any meals today",
                    "Log your first meal", <<>>, <<>>) >>
        ELSE IF PctLT(caloriePercentage, 30) /\ currentHour >= 14
        THEN << Rec(CATEGORY.CALORIE, PRIORITY.HIGH,
                    "Low calorie intake for this time of day",
                    "Plan your remaining meals", <<>>, <<>>) >>
        ELSE IF PctGE(caloriePercentage, 80)
        THEN << Rec(CATEGORY.CALORIE, PRIORITY.LOW, "Great calorie balance!",
                    "null", <<>>, <<>>) >>
        ELSE IF PctGT(caloriePercentage, 100)
        THEN IF goal = "lose-weight"
             THEN << Rec(CATEGORY.CALORIE, PRIORITY.HIGH, "Daily calorie target exceeded",
                         "Plan a lighter dinner", <<>>, <<overBy>>) >>
             ELSE << Rec(CATEGORY.CALORIE, PRIORITY.LOW, "Above your calorie target",
                         "null", <<>>, <<overBy>>) >>
        ELSE <<>>

\* CALORIE RECOMMENDATIONS: the if / else-if chain
CalorieRule(todaySummary, targets, goal, currentHour) ==
    LET caloriePercentage == Pct(todaySummary.totalCalories, targets.calories)
        overBy == todaySummary.totalCalories - targets.calories
    IN  IF PctIsZero(caloriePercentage) /\ currentHour >= 10
        THEN << Rec(CATEGORY.CALORIE, PRIORITY.HIGH, "Haven't logged any meals today",
                    "Log your first meal", <<>>, <<>>) >>
        ELSE IF PctLT(caloriePercentage, 30) /\ currentHour >= 14
        THEN << Rec(CATEGORY.CALORIE, PRIORITY.HIGH,
                    "Low calorie intake for this time of day",
                    "Plan your remaining meals", <<>>, <<>>) >>
        ELSE IF PctGT(caloriePercentage, 100)
        THEN IF goal = "lose-weight"
             THEN << Rec(CATEGORY.CALORIE, PRIORITY.HIGH, "Daily calorie target exceeded",
                         "Plan a lighter dinner", <<>>, <<overBy>>) >>
             ELSE << Rec(CATEGORY.CALORIE, PRIORITY.LOW, "Above your calorie target",
                         "null", <<>>, <<overBy>>) >>
        ELSE IF PctGE(caloriePercentage, 80) /\ PctLE(caloriePercentage, 100)
        THEN << Rec(CATEGORY.CALORIE, PRIORITY.LOW, "Great calorie balance!",
                    "null", <<>>, <<>>) >>
        ELSE <<>>

ProteinSuggestions ==
    <<"Chicken breast", "Greek yogurt", "Lentils", "Eggs", "Paneer", "Tofu">>

\* variant: the muscle-gain branch as an independent if
ProteinRule_NoElse(todaySummary, targets, goal, currentHour) ==
    LET proteinPercentage == Pct(todaySummary.totalProtein, targets.protein)
    IN  (IF PctLT(proteinPercentage, 50) /\ currentHour >= 18
         THEN << Rec(CATEGORY.PROTEIN, PRIORITY.HIGH, "Protein intake is low",
                     "Add protein-rich foods", ProteinSuggestions, <<>>) >>
         ELSE <<>>)
        \o
        (IF goal = "build-muscle" /\ PctLT(proteinPercentage, 80) /\ currentHour >= 15
         THEN << Rec(CATEGORY.PROTEIN, PRIORITY.MEDIUM, "Boost your protein for muscle gain",
                     "Add a protein snack", <<>>, <<>>) >>
         ELSE <<>>)

\* PROTEIN RECOMMENDATIONS
ProteinRule(todaySummary, targets, goal, currentHour) ==
    LET proteinPercentage == Pct(todaySummary.totalProtein, targets.protein)
    IN  IF PctLT(proteinPercentage, 50) /\ currentHour >= 18
        THEN << Rec(CATEGORY.PROTEIN, PRIORITY.HIGH, "Protein intake is low",
                    "Add protein-rich foods", ProteinSuggestions, <<>>) >>
        ELSE IF goal = "build-muscle" /\ PctLT(proteinPercentage, 80) /\ currentHour >= 15
        THEN << Rec(CATEGORY.PROTEIN, PRIORITY.MEDIUM, "Boost your protein for muscle gain",
                    "Add a protein snack", <<>>, <<>>) >>
        ELSE <<>>

\* variant: the fat comparison turned round (fatRatio < 50)
MacroBalanceRule_FatFlipped(todaySummary) ==
    LET totalMacros == todaySummary.totalProtein + todaySummary.totalCarbs
                          + todaySummary.totalFat
        carbsRatio == Pct(todaySummary.totalCarbs, totalMacros)
        fatRatio   == Pct(todaySummary.totalFat, totalMacros)
    IN  IF totalMacros > 0
        THEN (IF PctGT(carbsRatio, 70)
              THEN << Rec(CATEGORY.BALANCE, PRIORITY.MEDIUM, "High carbohydrate ratio",
                          "Balance with protein", <<>>, <<>>) >>
              ELSE <<>>)
             \o
             (IF PctLT(fatRatio, 50)
              THEN << Rec(CATEGORY.FAT, PRIORITY.MEDIUM, "High fat intake",
                          "Choose lighter options", <<>>, <<>>) >>
              ELSE <<>>)
        ELSE <<>>

\* MACRO BALANCE RECOMMENDATIONS
MacroBalanceRule(todaySummary) ==
    LET totalMacros == todaySummary.totalProtein + todaySummary.totalCarbs
                          + todaySummary.totalFat
        carbsRatio == Pct(todaySummary.totalCarbs, totalMacros)
        fatRatio   == Pct(todaySummary.totalFat, totalMacros)
    IN  IF totalMacros > 0
        THEN (IF PctGT(carbsRatio, 70)
              THEN << Rec(CATEGORY.BALANCE, PRIORITY.MEDIUM, "High carbohydrate ratio",
                          "Balance with protein", <<>>, <<>>) >>
              ELSE <<>>)
             \o
             (IF PctGT(fatRatio, 50)
              THEN << Rec(CATEGORY.FAT, PRIORITY.MEDIUM, "High fat intake",
                          "Choose lighter options", <<>>, <<>>) >>
              ELSE <<>>)
        ELSE <<>>

\* variant: the breakfast limit off by one (<= 3 instead of < 3)
MealTimingRule_AtMost3(weeklyMeals) ==
    IF Cardinality(weeklyMeals) > 0
    THEN LET breakfastMeals == {m \in weeklyMeals : m.mealType = "breakfast"}
             snackMeals     == {m \in weeklyMeals : m.mealType = "snack"}
         IN  (IF Cardinality(breakfastMeals) <= 3
              THEN << Rec(CATEGORY.MEAL_TIMING, PRIORITY.MEDIUM,
                          "Breakfast skipping detected", "Plan breakfast ahead",
                          <<>>, <<>>) >>
              ELSE <<>>)
             \o
             (IF Cardinality(snackMeals) > 10
              THEN << Rec(CATEGORY.MEAL_TIMING, PRIORITY.LOW, "Frequent snacking",
                          "Review snacking habits", <<>>, <<>>) >>
              ELSE <<>>)
    ELSE <<>>

\* MEAL TIMING RECOMMENDATIONS, over the documents Meal.find returned
MealTimingRule(weeklyMeals) ==
    IF Cardinality(weeklyMeals) > 0
    THEN LET breakfastMeals == {m \in weeklyMeals : m.mealType = "breakfast"}
             snackMeals     == {m \in weeklyMeals : m.mealType = "snack"}
         IN  (IF Cardinality(breakfastMeals) < 3
              THEN << Rec(CATEGORY.MEAL_TIMING, PRIORITY.MEDIUM,
                          "Breakfast skipping detected", "Plan breakfast ahead",
                          <<>>, <<>>) >>
              ELSE <<>>)
             \o
             (IF Cardinality(snackMeals) > 10
              THEN << Rec(CATEGORY.MEAL_TIMING, PRIORITY.LOW, "Frequent snacking",
                          "Review snacking habits", <<>>, <<>>) >>
              ELSE <<>>)
    ELSE <<>>

FiberSuggestions == <<"Broccoli", "Oats", "Apples", "Beans", "Brown rice">>

CalorieDenseSuggestions == <<"Nuts", "Peanut butter", "Avocado", "Cheese", "Banana shake">>

\* GOAL-SPECIFIC RECOMMENDATIONS: switch (goal)
GoalRule(todaySummary, targets, goal, currentHour) ==
    LET caloriePercentage == Pct(todaySummary.totalCalories, targets.calories)
    IN  CASE goal = "lose-weight" ->
               \* totalFiber < targets.fiber * 0.5
               IF 2 * todaySummary.totalFiber < targets.fiber
               THEN << Rec(CATEGORY.GOAL, PRIORITY.MEDIUM, "Increase fiber intake",
                           "Add fiber-rich foods", FiberSuggestions, <<>>) >>
               ELSE <<>>
          [] goal \in {"gain-weight", "build-muscle"} ->
               IF PctLT(caloriePercentage, 90) /\ currentHour >= 20
               THEN << Rec(CATEGORY.GOAL, PRIORITY.HIGH, "Need more calories for your goal",
                           "Add calorie-dense foods", CalorieDenseSuggestions, <<>>) >>
               ELSE <<>>
          [] goal = "maintain" ->
               \* Math.abs(caloriePercentage - 100) <= 10
               IF PctGE(caloriePercentage, 90) /\ PctLE(caloriePercentage, 110)
               THEN << Rec(CATEGORY.GOAL, PRIORITY.LOW, "Perfect maintenance!",
                           "null", <<>>, <<>>) >>
               ELSE <<>>
          [] OTHER -> <<>>

\* HYDRATION REMINDER
HydrationRule(targets, currentHour) ==
    IF currentHour >= 12 /\ currentHour <= 18
    THEN << Rec(CATEGORY.HYDRATION, PRIORITY.LOW, "Stay hydrated",
                "Drink a glass of water", <<>>, <<targets.water>>) >>
    ELSE <<>>

\* one step of the stable sort: r goes behind every element that does not sort after it
InsertByPriority(sorted, r) ==
    LET k == Cardinality({i \in 1..Len(sorted) : sorted[i].priority >= r.priority})
    IN  SubSeq(sorted, 1, k) \o <<r>> \o SubSeq(sorted, k + 1, Len(sorted))

RECURSIVE SortFrom(_, _)
SortFrom(sorted, rest) ==
    IF rest = <<>> THEN sorted
    ELSE SortFrom(InsertByPriority(sorted, Head(rest)), Tail(rest))

\* variant: the list returned as accumulated, the sort left out
SortByPriority_Unsorted(recommendations) == recommendations

\* recommendations.sort((a, b) => b.priority - a.priority)   (Array.prototype.sort is stable)
SortByPriority(recommendations) == SortFrom(<<>>, recommendations)

\* variant: the stored goal used without the 'maintain' default
GoalOf_NoDefault(profile) == profile.goal

\* profile.goal || 'maintain'
GoalOf(profile) == IF profile.goal = "undefined" THEN "maintain" ELSE profile.goal

\* new Date().getHours(): the local hour of day
GetHours(t, off) == (t + off) % HoursPerDay

\* Meal.find({ user: userId, consumedAt: { $gte: weekAgo } })
FindSince(docs, userId, weekAgo) ==
    {m \in docs : m.user = userId /\ m.consumedAt >= weekAgo}

\* the rule battery of generateDailyRecommendations on its evaluation context
Recommend(todaySummary, weeklyMeals, targets, goal, currentHour) ==
    SortByPriority(CalorieRule(todaySummary, targets, goal, currentHour)
                   \o ProteinRule(todaySummary, targets, goal, currentHour)
                   \o MacroBalanceRule(todaySummary)
                   \o MealTimingRule(weeklyMeals)
                   \o GoalRule(todaySummary, targets, goal, currentHour)
                   \o HydrationRule(targets, currentHour))

\* the context generateDailyRecommendations(userId) reads from the store and the clock
RecContext(userDocs, docs, off, clock, userId) ==
    LET user    == userDocs[userId]
        today   == StartOfDay(clock, off)
        weekAgo == AddDays(clock, -7)
    IN  [targets      |-> user.dailyTargets,
         goal         |-> GoalOf(user.profile),
         todaySummary |-> getDailySummary(docs, off, userId, today),
         weeklyMeals  |-> FindSince(docs, userId, weekAgo),
         currentHour  |-> GetHours(clock, off)]

\* generateDailyRecommendations(userId)
generateDailyRecommendations(userDocs, docs, off, clock, userId) ==
    LET c == RecContext(userDocs, docs, off, clock, userId)
    IN  Recommend(c.todaySummary, c.weeklyMeals, c.targets, c.goal, c.currentHour)

-----------------------------------------------------------------------------
(* Requests against the store                                              *)

\* POST /api/meals: createMeal -> Meal.create({ ...req.body, user: req.user._id })
CreateMeal(u, mt, n, at) ==
    /\ Cardinality(meals) < MaxMeals
    /\ LET meal == [id |-> nextId, user |-> u, mealType |-> mt, nutrition |-> n,
                    consumedAt |-> at]
       IN  /\ meals' = meals \cup {meal}
           /\ resp' = [op |-> "createMeal", user |-> u, status |-> 201, body |-> meal]
    /\ nextId' = nextId + 1
    /\ UNCHANGED <<users, tz, now, pending, inflight, issued, authStore, water, cache>>

\* GET /api/meals/daily/:date and the dashboard: Meal.getDailySummary(userId, date)
GetDailySummary(u, date) ==
    /\ resp' = [op |-> "getDailySummary", user |-> u, date |-> date,
                body |-> getDailySummary(meals, tz, u, date)]
    /\ UNCHANGED <<users, meals, nextId, tz, now, pending, inflight, issued, authStore, water, cache>>

\* GET /api/dashboard/trends?period=q
GetCalorieTrends(u, q) ==
    /\ resp' = [op |-> "getCalorieTrends", user |-> u, query |-> q, status |-> 200,
                body |-> getCalorieTrends(meals, tz, now, u, q)]
    /\ UNCHANGED <<users, meals, nextId, tz, now, pending, inflight, issued, authStore, water, cache>>

\* the dates a summary is asked for: today (new Date()), and the 'YYYY-MM-DD'
\* string of the first day of the 7-day window
SummaryDates == {now, ParseISODate(ISODate(now) - 6)}

Init ==
    /\ users = [u \in Users |-> DefaultUser]
    /\ meals = {}
    /\ nextId = 1
    /\ tz \in TzOffsets
    /\ now = Now0
    /\ resp = NoResp
    /\ pending = NoCall
    /\ cache = EmptyCache
    /\ water = {}
    /\ authStore = InitialAuthState
    /\ issued = {}
    /\ inflight = [c \in Clients |-> NoCall]

Next ==
    \/ \E u \in Users, mt \in LoggedTypes, n \in MealNutritions, at \in MealTimes :
          CreateMeal(u, mt, n, at)
    \/ \E u \in Users, date \in SummaryDates : GetDailySummary(u, date)
    \/ \E u \in Users, q \in PeriodQueries : GetCalorieTrends(u, q)

Spec == Init /\ [][Next]_vars

-----------------------------------------------------------------------------
(* The recommendation engine on drawn evaluation contexts                  *)

MaxWeekBreakfasts == 3

\* numbers of snack documents logged earlier in the week (the rule's limit is 10)
WeekSnackCounts == {0, 10}

\* the dailyTargets tried: the schema defaults and a custom set
RecTargets == {Targets(2000, 50, 250, 65, 25, 8), Targets(1700, 60, 200, 55, 30, 10)}

\* what user u1 may have logged today: [meal type, hour of day, nutrition];
\* a zero-calorie drink, a carbohydrate-heavy bowl, a main dish, a fat-heavy snack
TodayCatalog ==
    <<[mealType |-> "breakfast", hour |-> 8,  nutrition |-> Nutr(0, 0, 0, 0, 0, 0, 0)],
      [mealType |-> "lunch",     hour |-> 13, nutrition |-> Nutr(500, 5, 110, 2, 2, 4, 200)],
      [mealType |-> "dinner",    hour |-> 19, nutrition |-> Nutr(1200, 30, 10, 20, 13, 1, 900)],
      [mealType |-> "snack",     hour |-> 16, nutrition |-> Nutr(500, 5, 5, 50, 0, 3, 50)]>>

\* the documents of the catalog entries picked, consumed on the local day of clock
TodayDocs(picked, off, clock) ==
    {[id |-> i, user |-> "u1", mealType |-> TodayCatalog[i].mealType,
      nutrition |-> TodayCatalog[i].nutrition,
      consumedAt |-> StartOfDay(clock, off) + TodayCatalog[i].hour] : i \in picked}

\* b breakfast and s snack documents of u1, consumed two days before clock
WeekDocs(b, s, clock) ==
    {[id |-> 10 + i, user |-> "u1", mealType |-> "breakfast",
      nutrition |-> Nutr(300, 7, 40, 11, 3, 2, 100),
      consumedAt |-> AddDays(clock, -2)] : i \in 1..b}
    \cup
    {[id |-> 30 + i, user |-> "u1", mealType |-> "snack",
      nutrition |-> Nutr(150, 2, 20, 7, 1, 9, 80),
      consumedAt |-> AddDays(clock, -2)] : i \in 1..s}

\* variant: the defaulted goal written back to the user document
GetRecommendations_SavingGoal(u) ==
    /\ LET recommendations == generateDailyRecommendations(users, meals, tz, now, u)
       IN  resp' = [op |-> "getRecommendations", user |-> u, status |-> 200,
                    ctx |-> RecContext(users, meals, tz, now, u),
                    body |-> [count |-> Len(recommendations),
                              recommendations |-> recommendations]]
    /\ users' = [users EXCEPT ![u].profile.goal = GoalOf(users[u].profile)]
    /\ UNCHANGED <<meals, nextId, tz, now, pending, inflight, issued, authStore, water, cache>>

\* GET /api/recommendations: getRecommendations -> generateDailyRecommendations
GetRecommendations(u) ==
    /\ LET recommendations == generateDailyRecommendations(users, meals, tz, now, u)
       IN  resp' = [op |-> "getRecommendations", user |-> u, status |-> 200,
                    ctx |-> RecContext(users, meals, tz, now, u),
                    body |-> [count |-> Len(recommendations),
                              recommendations |-> recommendations]]
    /\ UNCHANGED <<users, meals, nextId, tz, now, pending, inflight, issued, authStore, water, cache>>

InitRec ==
    /\ \E t \in RecTargets, g \in Goals \cup {"undefined"} :
          users = [u \in Users |->
                      IF u = "u1"
                      THEN [DefaultUser EXCEPT !.dailyTargets = t, !.profile.goal = g]
                      ELSE DefaultUser]
    /\ tz \in TzOffsets
    /\ \E h \in 0..(HoursPerDay - 1) : now = 100 * HoursPerDay + h - tz
    /\ \E picked \in SUBSET (1..Len(TodayCatalog)),
          b \in 0..MaxWeekBreakfasts, s \in WeekSnackCounts :
          meals = TodayDocs(picked, tz, now) \cup WeekDocs(b, s, now)
    /\ nextId = 100
    /\ resp = NoResp
    /\ pending = NoCall
    /\ cache = EmptyCache
    /\ water = {}
    /\ authStore = InitialAuthState
    /\ issued = {}
    /\ inflight = [c \in Clients |-> NoCall]

NextRec == \E u \in Users : GetRecommendations(u)

SpecRec == InitRec /\ [][NextRec]_vars

-----------------------------------------------------------------------------
(* Dashboard: macro breakdown                                              *)

\* gram totals tried per macronutrient of a logged meal
MaxGrams == 9

\* the calendar of the year the clock starts in (1970): the day of the year
\* each month starts at, counted from 0
MonthStarts == <<0, 31, 59, 90, 120, 151, 181, 212, 243, 273, 304, 334, 365>>

LocalDay(t, off) == (t + off) \div HoursPerDay

\* Date.prototype.getMonth(), counted from 1 here
MonthOf(t, off) ==
    CHOOSE m \in 1..12 : /\ MonthStarts[m] <= LocalDay(t, off)
                         /\ LocalDay(t, off) < MonthStarts[m + 1]

\* Date.prototype.getDate(): the local day of the month
GetDate(t, off) == LocalDay(t, off) - MonthStarts[MonthOf(t, off)] + 1

\* Date.prototype.getDay(): the local day of the week, Sunday = 0 (day 0 is a Thursday)
GetDay(t, off) == (LocalDay(t, off) + 4) % 7

\* setMonth(getMonth() + 1); setDate(0): the last day of the month of t
LastDayOfMonth(t, off) ==
    AddDays(t, (MonthStarts[MonthOf(t, off) + 1] - MonthStarts[MonthOf(t, off)])
               - GetDate(t, off))

\* the ?period= values of the macro route ("absent": no query parameter)
MacroPeriods == {"day", "week", "month", "absent"}

\* variant: the quotient taken without the zero guard; 0 / 0 is NaN, written -1
DistributionPct_Unguarded(caloriesFrom, totalMacroCalories) ==
    IF totalMacroCalories = 0 THEN 0 - 1
    ELSE Round(caloriesFrom * 100, totalMacroCalories)

\* variant: Math.floor in place of Math.round
DistributionPct_Floor(caloriesFrom, totalMacroCalories) ==
    IF totalMacroCalories > 0 THEN (caloriesFrom * 100) \div totalMacroCalories ELSE 0

\* totalMacroCalories > 0 ? Math.round((caloriesFrom / totalMacroCalories) * 100) : 0
DistributionPct(caloriesFrom, totalMacroCalories) ==
    IF totalMacroCalories > 0 THEN Round(caloriesFrom * 100, totalMacroCalories) ELSE 0

\* const caloriesFromFat = data.totalFat * 9
CaloriesFromFat(totalFat) == totalFat * 9

ZeroMacroData ==
    [totalCalories |-> 0, totalProtein |-> 0, totalCarbs |-> 0, totalFat |-> 0,
     totalFiber |-> 0, totalSugar |-> 0]

\* $group { _id: null, totalCalories ... totalSugar }
GroupMacros(matched) ==
    IF matched = {} THEN <<>>
    ELSE << [totalCalories |-> SumOver(matched, "calories"),
             totalProtein  |-> SumOver(matched, "protein"),
             totalCarbs    |-> SumOver(matched, "carbs"),
             totalFat      |-> SumOver(matched, "fat"),
             totalFiber    |-> SumOver(matched, "fiber"),
             totalSugar    |-> SumOver(matched, "sugar")] >>

\* getMacroBreakdown: dateQuery is <<>> (no ?date=) or <<day>> ('YYYY-MM-DD')
getMacroBreakdown(docs, off, clock, userId, dateQuery, periodQuery) ==
    LET period == IF periodQuery = "absent" THEN "day" ELSE periodQuery
        given  == IF Len(dateQuery) > 0 THEN ParseISODate(dateQuery[1]) ELSE clock
        start  == CASE period = "week"  -> AddDays(given, 0 - GetDay(given, off))
                    [] period = "month" -> AddDays(given, 1 - GetDate(given, off))
                    [] OTHER            -> given
        end    == CASE period = "week"  -> AddDays(start, 6)
                    [] period = "month" -> LastDayOfMonth(start, off)
                    [] OTHER            -> start
        startDate == StartOfDay(start, off)
        endDate   == EndOfDay(end, off)
        macroData == GroupMacros(MatchRange(docs, userId, startDate, endDate))
        data      == IF Len(macroData) > 0 THEN macroData[1] ELSE ZeroMacroData
        caloriesFromProtein == data.totalProtein * 4
        caloriesFromCarbs   == data.totalCarbs * 4
        caloriesFromFat     == CaloriesFromFat(data.totalFat)
        totalMacroCalories  == caloriesFromProtein + caloriesFromCarbs + caloriesFromFat
    IN  [period    |-> period,
         startDate |-> ISODate(startDate),
         endDate   |-> ISODate(endDate),
         totals    |-> [calories |-> data.totalCalories, protein |-> data.totalProtein,
                        carbs |-> data.totalCarbs, fat |-> data.totalFat,
                        fiber |-> data.totalFiber, sugar |-> data.totalSugar],
         distribution |->
             [protein |-> DistributionPct(caloriesFromProtein, totalMacroCalories),
              carbs   |-> DistributionPct(caloriesFromCarbs, totalMacroCalories),
              fat     |-> DistributionPct(caloriesFromFat, totalMacroCalories)],
         caloriesFromMacros |-> [protein |-> caloriesFromProtein,
                                 carbs   |-> caloriesFromCarbs,
                                 fat     |-> caloriesFromFat]]

\* GET /api/dashboard/macros?date=&period=
GetMacroBreakdown(u, dateQuery, periodQuery) ==
    /\ resp' = [op |-> "getMacroBreakdown", user |-> u, date |-> dateQuery,
                query |-> periodQuery, status |-> 200,
                body |-> getMacroBreakdown(meals, tz, now, u, dateQuery, periodQuery)]
    /\ UNCHANGED <<users, meals, nextId, tz, now, pending, inflight, issued, authStore, water, cache>>

\* the ?date= values tried: none, and the 'YYYY-MM-DD' string of today
MacroDates == {<<>>, <<ISODate(now)>>}

\* what u1 has logged: nothing, or one meal three hours ago with drawn gram
\* totals, alone or next to a meal of nine days earlier (the same month,
\* another week)
InitMacro ==
    /\ users = [u \in Users |-> DefaultUser]
    /\ tz \in TzOffsets
    /\ now = Now0
    /\ \/ meals = {}
       \/ \E p \in 0..MaxGrams, c \in 0..MaxGrams, f \in 0..MaxGrams, older \in BOOLEAN :
             meals = {[id |-> 1, user |-> "u1", mealType |-> "lunch",
                       nutrition |-> Nutr(100, p, c, f, 2, 3, 50),
                       consumedAt |-> Now0 - 3]}
                     \cup
                     (IF older
                      THEN {[id |-> 2, user |-> "u1", mealType |-> "dinner",
                             nutrition |-> Nutr(300, 7, 40, 11, 3, 2, 100),
                             consumedAt |-> AddDays(Now0, -9)]}
                      ELSE {})
    /\ nextId = 3
    /\ resp = NoResp
    /\ pending = NoCall
    /\ cache = EmptyCache
    /\ water = {}
    /\ authStore = InitialAuthState
    /\ issued = {}
    /\ inflight = [c \in Clients |-> NoCall]

NextMacro ==
    \E u \in Users, d \in MacroDates, q \in MacroPeriods : GetMacroBreakdown(u, d, q)

SpecMacro == InitMacro /\ [][NextMacro]_vars

-----------------------------------------------------------------------------
(* Recommendation service: meal suggestions                                *)

Meal(name, calories, protein, carbs, fat, tags) ==
    [name |-> name, calories |-> calories, protein |-> protein, carbs |-> carbs,
     fat |-> fat, tags |-> tags]

\* const mealDatabase = { breakfast: [...], lunch: [...], dinner: [...], snack: [...] }
mealDatabase ==
    [slot \in MealTypes |->
       CASE slot = "breakfast" ->
              << Meal("Oatmeal with Fruits", 300, 10, 50, 8, {"vegetarian", "fiber-rich"}),
                 Meal("Eggs & Toast", 350, 18, 30, 16, {"high-protein"}),
                 Meal("Greek Yogurt Parfait", 280, 15, 35, 8, {"vegetarian", "high-protein"}),
                 Meal("Avocado Toast", 320, 8, 28, 22, {"vegetarian", "healthy-fats"}),
                 Meal("Protein Smoothie", 350, 25, 40, 8, {"high-protein", "quick"}),
                 Meal("Poha with Vegetables", 280, 6, 45, 10, {"vegetarian", "indian"}),
                 Meal("Idli with Sambar", 250, 8, 42, 5, {"vegetarian", "indian", "low-fat"}) >>
         [] slot = "lunch" ->
              << Meal("Grilled Chicken Salad", 450, 35, 20, 25, {"high-protein", "low-carb"}),
                 Meal("Dal Rice Bowl", 500, 15, 75, 12, {"vegetarian", "indian"}),
                 Meal("Paneer Tikka Wrap", 480, 22, 45, 22, {"vegetarian", "indian"}),
                 Meal("Quinoa Buddha Bowl", 420, 18, 55, 15, {"vegetarian", "balanced"}),
                 Meal("Chicken Biryani", 550, 28, 60, 20, {"indian", "high-protein"}),
                 Meal("Vegetable Stir Fry", 380, 12, 45, 16, {"vegetarian", "quick"}) >>
         [] slot = "dinner" ->
              << Meal("Grilled Fish with Vegetables", 400, 32, 25, 18,
                      {"high-protein", "low-carb"}),
                 Meal("Chicken Curry with Roti", 480, 28, 45, 18, {"indian", "high-protein"}),
                 Meal("Palak Paneer with Rice", 520, 18, 55, 24, {"vegetarian", "indian"}),
                 Meal("Lentil Soup with Bread", 350, 16, 50, 8, {"vegetarian", "fiber-rich"}),
                 Meal("Egg Curry with Chapati", 420, 20, 40, 18, {"indian", "high-protein"}),
                 Meal("Mixed Vegetable Khichdi", 380, 12, 60, 10,
                      {"vegetarian", "indian", "comfort"}) >>
         [] slot = "snack" ->
              << Meal("Mixed Nuts (handful)", 180, 5, 8, 16, {"healthy-fats", "quick"}),
                 Meal("Apple with Peanut Butter", 200, 5, 25, 10, {"vegetarian", "quick"}),
                 Meal("Protein Bar", 220, 15, 25, 8, {"high-protein", "convenient"}),
                 Meal("Hummus with Carrots", 150, 5, 18, 7, {"vegetarian", "fiber-rich"}),
                 Meal("Boiled Eggs (2)", 140, 12, 1, 10, {"high-protein", "low-carb"}),
                 Meal("Chana Chaat", 180, 8, 28, 5, {"vegetarian", "indian"}) >>]

\* mealDatabase[mealType] || []
CatalogOf(mealType) == IF mealType \in DOMAIN mealDatabase THEN mealDatabase[mealType] ELSE <<>>

\* variant: the difference without the floor at 0
RemainingOf_Signed(target, consumed) == target - consumed

\* Math.max(0, target - consumed)
RemainingOf(target, consumed) == IF target - consumed > 0 THEN target - consumed ELSE 0

\* variant: only the 'vegetarian' diet filters
FilterDiet_VegetarianOnly(catalog, dietType) ==
    IF dietType = "vegetarian"
    THEN SelectSeq(catalog, LAMBDA m : "vegetarian" \in m.tags \/ "vegan" \in m.tags)
    ELSE catalog

\* Filter based on dietary preferences
FilterDiet(catalog, dietType) ==
    IF dietType = "vegetarian" \/ dietType = "vegan"
    THEN SelectSeq(catalog, LAMBDA m : "vegetarian" \in m.tags \/ "vegan" \in m.tags)
    ELSE catalog

\* variant: the penalty without the 20% tolerance (meal.calories > remaining.calories)
ScoreMeal_NoTolerance(meal, remaining, goal) ==
    100 - (IF meal.calories > remaining.calories THEN 30 ELSE 0)
        + (IF remaining.protein > 20 /\ meal.protein >= 15 THEN 20 ELSE 0)
        + (IF goal = "lose-weight" /\ 10 * meal.calories <= 4 * remaining.calories
           THEN 15 ELSE 0)
        + (IF goal = "build-muscle" /\ meal.protein >= 20 THEN 20 ELSE 0)

\* Score meals based on nutritional fit; x > r * 1.2 is 10x > 12r, x <= r * 0.4 is 10x <= 4r
ScoreMeal(meal, remaining, goal) ==
    100 - (IF 10 * meal.calories > 12 * remaining.calories THEN 30 ELSE 0)
        + (IF remaining.protein > 20 /\ meal.protein >= 15 THEN 20 ELSE 0)
        + (IF goal = "lose-weight" /\ 10 * meal.calories <= 4 * remaining.calories
           THEN 15 ELSE 0)
        + (IF goal = "build-muscle" /\ meal.protein >= 20 THEN 20 ELSE 0)

\* one step of the stable sort: m goes behind every element that does not sort after it
InsertByScore(sorted, m) ==
    LET k == Cardinality({i \in 1..Len(sorted) : sorted[i].score >= m.score})
    IN  SubSeq(sorted, 1, k) \o <<m>> \o SubSeq(sorted, k + 1, Len(sorted))

RECURSIVE SortScoreFrom(_, _)
SortScoreFrom(sorted, rest) ==
    IF rest = <<>> THEN sorted
    ELSE SortScoreFrom(InsertByScore(sorted, Head(rest)), Tail(rest))

\* variant: the scored list left in catalog order
SortByScore_Unsorted(scoredMeals) == scoredMeals

\* scoredMeals.sort((a, b) => b.score - a.score)   (Array.prototype.sort is stable)
SortByScore(scoredMeals) == SortScoreFrom(<<>>, scoredMeals)

\* Array.prototype.slice(0, n)
SliceFirst(s, n) == SubSeq(s, 1, IF Len(s) < n THEN Len(s) ELSE n)

\* getMealSuggestions(userId, mealType)
getMealSuggestions(userDocs, docs, off, clock, userId, mealType) ==
    LET user         == userDocs[userId]
        targets      == user.dailyTargets
        preferences  == user.preferences
        goal         == user.profile.goal
        today        == StartOfDay(clock, off)
        todaySummary == getDailySummary(docs, off, userId, today)
        remaining ==
            [calories |-> RemainingOf(targets.calories, todaySummary.totalCalories),
             protein  |-> RemainingOf(targets.protein, todaySummary.totalProtein),
             carbs    |-> RemainingOf(targets.carbs, todaySummary.totalCarbs),
             fat      |-> RemainingOf(targets.fat, todaySummary.totalFat)]
        filteredMeals == FilterDiet(CatalogOf(mealType), preferences.dietType)
        scoredMeals ==
            SortByScore([i \in 1..Len(filteredMeals) |->
                            [meal  |-> filteredMeals[i],
                             score |-> ScoreMeal(filteredMeals[i], remaining, goal)]])
        top == SliceFirst(scoredMeals, 5)
    IN  [mealType |-> mealType,
         remainingNutrition |-> remaining,
         suggestions |->
             [i \in 1..Len(top) |->
                 [name |-> top[i].meal.name,
                  nutrition |-> [calories |-> top[i].meal.calories,
                                 protein  |-> top[i].meal.protein,
                                 carbs    |-> top[i].meal.carbs,
                                 fat      |-> top[i].meal.fat],
                  tags |-> top[i].meal.tags,
                  matchScore |-> top[i].score]]]

\* GET /api/recommendations/meals/:mealType: getSuggestions
GetSuggestions(u, mealType) ==
    /\ LET validTypes == {"breakfast", "lunch", "dinner", "snack"}
       IN  IF mealType \notin validTypes
           THEN resp' = [op |-> "getSuggestions", user |-> u, mealType |-> mealType,
                         status |-> 400, engineCalls |-> 0,
                         body |-> [success |-> FALSE]]
           ELSE resp' = [op |-> "getSuggestions", user |-> u, mealType |-> mealType,
                         status |-> 200, engineCalls |-> 1,
                         body |-> getMealSuggestions(users, meals, tz, now, u, mealType)]
    /\ UNCHANGED <<users, meals, nextId, tz, now, pending, inflight, issued, authStore, water, cache>>

\* the exported service function called with a slot of the caller's choosing
CallGetMealSuggestions(u, mealType) ==
    /\ resp' = [op |-> "getMealSuggestions", user |-> u, mealType |-> mealType,
                status |-> "fulfilled", engineCalls |-> 1,
                body |-> getMealSuggestions(users, meals, tz, now, u, mealType)]
    /\ UNCHANGED <<users, meals, nextId, tz, now, pending, inflight, issued, authStore, water, cache>>

DietTypes == {"none", "vegetarian", "vegan", "keto", "paleo", "mediterranean"}

\* the :mealType values a client sends: the four slots and a tag outside the enum
SlotTags == MealTypes \cup {"brunch"}

InitSug ==
    /\ \E t \in RecTargets, g \in Goals, d \in DietTypes :
          users = [u \in Users |->
                      IF u = "u1"
                      THEN [DefaultUser EXCEPT !.dailyTargets = t, !.profile.goal = g,
                                               !.preferences.dietType = d]
                      ELSE DefaultUser]
    /\ tz \in TzOffsets
    /\ now = Now0
    /\ \E picked \in SUBSET (1..Len(TodayCatalog)) : meals = TodayDocs(picked, tz, now)
    /\ nextId = 100
    /\ resp = NoResp
    /\ pending = NoCall
    /\ cache = EmptyCache
    /\ water = {}
    /\ authStore = InitialAuthState
    /\ issued = {}
    /\ inflight = [c \in Clients |-> NoCall]

NextSug ==
    \/ \E u \in Users, mt \in SlotTags : GetSuggestions(u, mt)
    \/ \E u \in Users, mt \in SlotTags : CallGetMealSuggestions(u, mt)

SpecSug == InitSug /\ [][NextSug]_vars

-----------------------------------------------------------------------------
(* generateDailyRecommendations step by step, the clock running            *)

\* hours the clock may advance while calls are in flight
MaxTicks == 2

\* local hours of day 100 the clock starts at: before the 14:00 calorie
\* threshold, before the 18:00 protein threshold, before midnight
ClockStarts == {13, 17, 23}

\* the server clock advances by an hour
Tick ==
    /\ \E h \in ClockStarts :
          /\ now + tz >= 100 * HoursPerDay + h
          /\ now + tz < 100 * HoursPerDay + h + MaxTicks
    /\ now' = now + 1
    /\ UNCHANGED <<users, meals, nextId, tz, resp, pending, inflight, issued, authStore, water, cache>>

\* getRecommendations calls generateDailyRecommendations(req.user._id):
\* User.findById is issued and awaited
RecFindUser(u) ==
    /\ pending.pc = "idle"
    /\ pending' = [pc |-> "findById", user |-> u, started |-> now]
    /\ UNCHANGED <<users, meals, nextId, tz, now, resp, inflight, issued, authStore, water, cache>>

\* findById resolved: const today = new Date(); today.setHours(0, 0, 0, 0);
\* Meal.getDailySummary(userId, today) is issued and awaited
RecReadToday ==
    /\ pending.pc = "findById"
    /\ pending' = [pc |-> "getDailySummary", user |-> pending.user,
                   started |-> pending.started,
                   targets |-> users[pending.user].dailyTargets,
                   goal |-> GoalOf(users[pending.user].profile),
                   today |-> StartOfDay(now, tz)]
    /\ UNCHANGED <<users, meals, nextId, tz, now, resp, inflight, issued, authStore, water, cache>>

\* the summary resolved: const weekAgo = new Date(); weekAgo.setDate(getDate() - 7);
\* Meal.find({ user, consumedAt: { $gte: weekAgo } }) is issued and awaited
RecReadWeek ==
    /\ pending.pc = "getDailySummary"
    /\ pending' = [pc |-> "find", user |-> pending.user, started |-> pending.started,
                   targets |-> pending.targets, goal |-> pending.goal,
                   todaySummary |-> getDailySummary(meals, tz, pending.user, pending.today),
                   weekAgo |-> AddDays(now, -7)]
    /\ UNCHANGED <<users, meals, nextId, tz, now, resp, inflight, issued, authStore, water, cache>>

\* the find resolved: const currentHour = new Date().getHours(); the rules run,
\* the list is sorted and the controller sends it
RecFinish ==
    /\ pending.pc = "find"
    /\ LET ctx == [targets      |-> pending.targets,
                   goal         |-> pending.goal,
                   todaySummary |-> pending.todaySummary,
                   weeklyMeals  |-> FindSince(meals, pending.user, pending.weekAgo),
                   currentHour  |-> GetHours(now, tz)]
           recommendations == Recommend(ctx.todaySummary, ctx.weeklyMeals, ctx.targets,
                                        ctx.goal, ctx.currentHour)
       IN  resp' = [op |-> "getRecommendations", user |-> pending.user, status |-> 200,
                    ctx |-> ctx, started |-> pending.started, finished |-> now,
                    body |-> [count |-> Len(recommendations),
                              recommendations |-> recommendations]]
    /\ pending' = NoCall
    /\ UNCHANGED <<users, meals, nextId, tz, now, inflight, issued, authStore, water, cache>>

InitClock ==
    /\ \E g \in Goals :
          users = [u \in Users |->
                      IF u = "u1" THEN [DefaultUser EXCEPT !.profile.goal = g]
                      ELSE DefaultUser]
    /\ tz \in TzOffsets
    /\ \E h \in ClockStarts : now = 100 * HoursPerDay + h - tz
    /\ \E picked \in SUBSET (1..Len(TodayCatalog)) : meals = TodayDocs(picked, tz, now)
    /\ nextId = 100
    /\ resp = NoResp
    /\ pending = NoCall
    /\ cache = EmptyCache
    /\ water = {}
    /\ authStore = InitialAuthState
    /\ issued = {}
    /\ inflight = [c \in Clients |-> NoCall]

NextClock ==
    \/ Tick
    \/ \E u \in Users : RecFindUser(u)
    \/ RecReadToday
    \/ RecReadWeek
    \/ RecFinish

SpecClock == InitClock /\ [][NextClock]_vars

-----------------------------------------------------------------------------
(* The analytics operations next to the CRUD layer                         *)

\* meals are logged three hours before the clock, the analytics are asked for
\* today, the current week and the lunch slot
InitFrame ==
    /\ \E g \in {"undefined", "lose-weight"} :
          users = [u \in Users |->
                      IF u = "u1" THEN [DefaultUser EXCEPT !.profile.goal = g]
                      ELSE DefaultUser]
    /\ meals = {}
    /\ nextId = 1
    /\ tz \in TzOffsets
    /\ now = Now0
    /\ resp = NoResp
    /\ pending = NoCall
    /\ cache = EmptyCache
    /\ water = {}
    /\ authStore = InitialAuthState
    /\ issued = {}
    /\ inflight = [c \in Clients |-> NoCall]

NextFrame ==
    \/ \E u \in Users, mt \in LoggedTypes, n \in MealNutritions : CreateMeal(u, mt, n, Now0 - 3)
    \/ \E u \in Users : GetDailySummary(u, now)
    \/ \E u \in Users, q \in {"7d", "absent"} : GetCalorieTrends(u, q)
    \/ \E u \in Users, q \in {"day", "week"} : GetMacroBreakdown(u, <<>>, q)
    \/ \E u \in Users : GetRecommendations(u)
    \/ \E u \in Users : GetSuggestions(u, "lunch")
    \/ \E u \in Users : CallGetMealSuggestions(u, "lunch")

SpecFrame == InitFrame /\ [][NextFrame]_vars

-----------------------------------------------------------------------------
(* Properties: summaries and trends (checked under Spec)                   *)

IsTrends == resp.op = "getCalorieTrends"

IsSummary == resp.op = "getDailySummary"

TrendDates(b) == [i \in 1..Len(b.trends) |-> b.trends[i].date]

\* C1: gap-fill completeness.  A trends response carries exactly
\* (reported endDate - reported startDate) + 1 = P points, one for each calendar
\* day from the reported startDate to the reported endDate, in ascending order.
C1_GapFillCompleteness ==
    IsTrends =>
        LET b == resp.body
        IN  /\ Len(b.trends) = (b.endDate - b.startDate) + 1
            /\ Len(b.trends) = b.days
            /\ TrendDates(b) = [i \in 1..b.days |-> b.startDate + i - 1]

\* the documents of the requesting user inside the window the response was built for
WindowDocs ==
    MatchRange(meals, resp.user,
               StartOfDay(AddDays(now, 1 - resp.body.days), tz), EndOfDay(now, tz))

\* C2: every TrendPoint carries the totals and the meal count that
\* getDailySummary computes for the point's date from the same records, and
\* the points together account for every record of the window.
C2_TrendAgreesWithSummary ==
    IsTrends =>
        /\ \A i \in 1..Len(resp.body.trends) :
              LET pt == resp.body.trends[i]
                  sm == getDailySummary(meals, tz, resp.user, ParseISODate(pt.date))
              IN  /\ pt.calories = sm.totalCalories
                  /\ pt.protein = sm.totalProtein
                  /\ pt.carbs = sm.totalCarbs
                  /\ pt.fat = sm.totalFat
                  /\ pt.mealCount = sm.mealCount
        /\ SumSeq(resp.body.trends, "mealCount") = Cardinality(WindowDocs)

\* the store holds no record of the asked user inside the asked local day
NoRecordThatDay ==
    ~ \E m \in meals :
          /\ m.user = resp.user
          /\ m.consumedAt >= StartOfDay(resp.date, tz)
          /\ m.consumedAt < StartOfDay(resp.date, tz) + HoursPerDay

SummaryFields ==
    {"totalCalories", "totalProtein", "totalCarbs", "totalFat", "totalFiber",
     "totalSugar", "totalSodium", "mealCount"}

\* C3: zero-day property.  When the store holds no record of the user inside
\* the day, getDailySummary returns a summary with all eight fields present
\* and equal to 0, whatever records exist for other users or other days.
C3_ZeroDay ==
    (IsSummary /\ NoRecordThatDay) =>
        /\ DOMAIN resp.body = SummaryFields
        /\ \A f \in SummaryFields : resp.body[f] = 0

\* a zero-day summary was returned while the store holds a record of another
\* user inside that day and a record of the same user on another day
C3_Witness ==
    /\ IsSummary
    /\ NoRecordThatDay
    /\ resp.body.mealCount = 0
    /\ \E m \in meals : /\ m.user # resp.user
                        /\ m.consumedAt >= StartOfDay(resp.date, tz)
                        /\ m.consumedAt <= EndOfDay(resp.date, tz)
    /\ \E m \in meals : m.user = resp.user

-----------------------------------------------------------------------------
(* Properties: recommendations (checked under SpecRec)                     *)

IsRecs == resp.op = "getRecommendations"

Recs == resp.body.recommendations

RecsWhere(P(_)) == {i \in 1..Len(Recs) : P(Recs[i])}

HasTitle(title) == \E i \in 1..Len(Recs) : Recs[i].title = title

CountCategory(category) == Cardinality(RecsWhere(LAMBDA r : r.category = category))

\* the position of a recommendation's rule in the evaluation order
RuleIndex(r) ==
    CASE r.category = "calorie" -> 1
      [] r.category = "protein" -> 2
      [] r.category = "balance" -> 3
      [] r.category = "fat" -> 4
      [] r.title = "Breakfast skipping detected" -> 5
      [] r.title = "Frequent snacking" -> 6
      [] r.category = "goal" -> 7
      [] r.category = "hydration" -> 8

\* C4: the returned list is non-increasing in priority, and recommendations
\* of equal priority appear in rule-evaluation order.
C4_PriorityOrder ==
    IsRecs =>
        \A i, j \in 1..Len(Recs) :
            i < j => /\ Recs[i].priority >= Recs[j].priority
                     /\ Recs[i].priority = Recs[j].priority
                            => RuleIndex(Recs[i]) < RuleIndex(Recs[j])

\* the sort moved a later rule's recommendation ahead of an earlier rule's,
\* and kept a tie of three recommendations in evaluation order
C4_Witness ==
    /\ IsRecs
    /\ \E i, j \in 1..Len(Recs) :
          i < j /\ Recs[i].priority > Recs[j].priority
                /\ RuleIndex(Recs[i]) > RuleIndex(Recs[j])
    /\ \E i, j, k \in 1..Len(Recs) :
          i < j /\ j < k /\ Recs[i].priority = Recs[j].priority
                /\ Recs[j].priority = Recs[k].priority

\* C5: at most one recommendation of category 'calorie' is in the result.
C5_SingleCalorie == IsRecs => CountCategory("calorie") <= 1

\* nothing eaten by 14:00 or later: the first two calorie branches both match
C5_Witness ==
    /\ IsRecs
    /\ resp.ctx.todaySummary.totalCalories = 0
    /\ resp.ctx.currentHour >= 14
    /\ CountCategory("calorie") = 1

\* C6: "Haven't logged any meals today" is emitted exactly when today's
\* mealCount is 0 and the hour is >= 10, and it then is the only calorie
\* recommendation.
C6_NoMealsLogged ==
    IsRecs =>
        /\ HasTitle("Haven't logged any meals today")
              <=> (resp.ctx.todaySummary.mealCount = 0 /\ resp.ctx.currentHour >= 10)
        /\ HasTitle("Haven't logged any meals today") => CountCategory("calorie") = 1

\* today's calories exceed the target
OverTarget == resp.ctx.todaySummary.totalCalories > resp.ctx.targets.calories

\* C7: whenever today's calories exceed the target, at any hour, exactly one
\* calorie recommendation is emitted: HIGH 'Daily calorie target exceeded' for
\* lose-weight, LOW 'Above your calorie target' otherwise, reporting
\* overBy = consumed - target.
C7_Exceeded ==
    (IsRecs /\ OverTarget) =>
        /\ CountCategory("calorie") = 1
        /\ \A i \in RecsWhere(LAMBDA r : r.category = "calorie") :
              /\ Recs[i].args = <<resp.ctx.todaySummary.totalCalories
                                    - resp.ctx.targets.calories>>
              /\ IF resp.ctx.goal = "lose-weight"
                 THEN Recs[i].priority = 3 /\ Recs[i].title = "Daily calorie target exceeded"
                 ELSE Recs[i].priority = 1 /\ Recs[i].title = "Above your calorie target"

\* 2200 kcal against a 2000 target with goal lose-weight reports 200
C7_Witness ==
    /\ IsRecs
    /\ resp.ctx.todaySummary.totalCalories = 2200
    /\ resp.ctx.targets.calories = 2000
    /\ resp.ctx.goal = "lose-weight"
    /\ \E i \in 1..Len(Recs) :
          Recs[i].title = "Daily calorie target exceeded" /\ Recs[i].args = <<200>>

ProteinBelow(k) ==
    resp.ctx.todaySummary.totalProtein * 100 < k * resp.ctx.targets.protein

ProteinHighDue == ProteinBelow(50) /\ resp.ctx.currentHour >= 18

ProteinMediumDue ==
    /\ ~ ProteinHighDue
    /\ resp.ctx.goal = "build-muscle"
    /\ ProteinBelow(80)
    /\ resp.ctx.currentHour >= 15

\* C8: HIGH 'Protein intake is low', with the fixed food list, is emitted iff
\* protein is below 50% of its target and hour >= 18; otherwise the MEDIUM
\* muscle-gain recommendation is emitted iff goal = build-muscle, protein is
\* below 80% and hour >= 15; never more than one protein recommendation.
C8_ProteinRules ==
    IsRecs =>
        /\ HasTitle("Protein intake is low") <=> ProteinHighDue
        /\ \A i \in RecsWhere(LAMBDA r : r.title = "Protein intake is low") :
              /\ Recs[i].priority = 3
              /\ Recs[i].category = "protein"
              /\ Recs[i].suggestions = <<"Chicken breast", "Greek yogurt", "Lentils",
                                         "Eggs", "Paneer", "Tofu">>
        /\ HasTitle("Boost your protein for muscle gain") <=> ProteinMediumDue
        /\ \A i \in RecsWhere(LAMBDA r : r.title = "Boost your protein for muscle gain") :
              Recs[i].priority = 2 /\ Recs[i].category = "protein"
        /\ CountCategory("protein") <= 1
        /\ CountCategory("protein") = 1 <=> (ProteinHighDue \/ ProteinMediumDue)

\* a muscle builder low on protein in the evening: both conditions hold and
\* only the HIGH recommendation is emitted
C8_Witness ==
    /\ IsRecs
    /\ resp.ctx.goal = "build-muscle"
    /\ ProteinHighDue
    /\ HasTitle("Protein intake is low")
    /\ CountCategory("protein") = 1

CaloriesTimes100 == resp.ctx.todaySummary.totalCalories * 100

\* the goal-specific recommendation that is due for the effective goal
GoalDue(goal) ==
    CASE goal = "lose-weight" ->
           2 * resp.ctx.todaySummary.totalFiber < resp.ctx.targets.fiber
      [] goal \in {"gain-weight", "build-muscle"} ->
           /\ CaloriesTimes100 < 90 * resp.ctx.targets.calories
           /\ resp.ctx.currentHour >= 20
      [] goal = "maintain" ->
           /\ CaloriesTimes100 >= 90 * resp.ctx.targets.calories
           /\ CaloriesTimes100 <= 110 * resp.ctx.targets.calories
      [] OTHER -> FALSE

GoalTitle(goal) ==
    CASE goal = "lose-weight" -> "Increase fiber intake"
      [] goal \in {"gain-weight", "build-muscle"} -> "Need more calories for your goal"
      [] OTHER -> "Perfect maintenance!"

GoalPriority(goal) ==
    CASE goal = "lose-weight" -> 2
      [] goal \in {"gain-weight", "build-muscle"} -> 3
      [] OTHER -> 1

GoalSuggestions(goal) ==
    CASE goal = "lose-weight" -> <<"Broccoli", "Oats", "Apples", "Beans", "Brown rice">>
      [] goal \in {"gain-weight", "build-muscle"} ->
           <<"Nuts", "Peanut butter", "Avocado", "Cheese", "Banana shake">>
      [] OTHER -> <<>>

\* the goal stored in the profile, 'maintain' standing in for a missing one
EffectiveGoal ==
    IF users[resp.user].profile.goal = "undefined"
    THEN "maintain" ELSE users[resp.user].profile.goal

WeekBreakfasts == Cardinality({m \in resp.ctx.weeklyMeals : m.mealType = "breakfast"})

\* C10 as stated: 'Breakfast skipping detected' is emitted iff the 7-day
\* window holds fewer than 3 breakfast-tagged records.
C10_BreakfastAsStated ==
    IsRecs => (HasTitle("Breakfast skipping detected") <=> WeekBreakfasts < 3)

\* C10 amended: 'Breakfast skipping detected' (MEDIUM) is emitted iff the
\* 7-day window holds at least one record and fewer than 3 breakfast-tagged
\* records.
C10_BreakfastSkipping ==
    IsRecs =>
        /\ HasTitle("Breakfast skipping detected")
              <=> (resp.ctx.weeklyMeals # {} /\ WeekBreakfasts < 3)
        /\ \A i \in RecsWhere(LAMBDA r : r.title = "Breakfast skipping detected") :
              Recs[i].priority = 2

\* two breakfasts in a non-empty window: emitted; the boundary below 3
C10_Witness ==
    /\ IsRecs
    /\ WeekBreakfasts = 2
    /\ HasTitle("Breakfast skipping detected")

-----------------------------------------------------------------------------
(* Properties: macro balance (checked under SpecRec)                       *)

\* gram totals tried for a day's summary when a summary is quantified over
MaxMacroGrams == 12

SummaryOfGrams(p, c, f) ==
    [ZeroSummary EXCEPT !.totalProtein = p, !.totalCarbs = c, !.totalFat = f,
                        !.totalCalories = 4 * p + 4 * c + 9 * f, !.mealCount = 1]

RuleTitles(recs) == {recs[i].title : i \in 1..Len(recs)}

\* C11 as stated: the two macro-balance rules can both fire in the same
\* evaluation: for the user, records of the week and hour of a request there
\* is a today's summary (protein, carbohydrate and fat gram totals) for which
\* the result of generateDailyRecommendations contains both 'High
\* carbohydrate ratio' and 'High fat intake'.
C11_BothCanFire ==
    IsRecs =>
        \E p \in 0..MaxMacroGrams, c \in 0..MaxMacroGrams, f \in 0..MaxMacroGrams :
            {"High carbohydrate ratio", "High fat intake"}
                \subseteq RuleTitles(Recommend(SummaryOfGrams(p, c, f),
                                               resp.ctx.weeklyMeals, resp.ctx.targets,
                                               resp.ctx.goal, resp.ctx.currentHour))

\* C11 amended: over the gram total protein + carbs + fat of today's summary,
\* 'High carbohydrate ratio' (MEDIUM) is emitted iff carbs exceed 70% of it and
\* 'High fat intake' (MEDIUM) iff fat exceeds 50% of it; the two are tested
\* independently but never appear in the same result.
C11_MacroRulesExclusive ==
    IsRecs =>
        LET s == resp.ctx.todaySummary
            total == s.totalProtein + s.totalCarbs + s.totalFat
        IN  /\ HasTitle("High carbohydrate ratio") <=> 10 * s.totalCarbs > 7 * total
            /\ HasTitle("High fat intake") <=> 2 * s.totalFat > total
            /\ ~(HasTitle("High carbohydrate ratio") /\ HasTitle("High fat intake"))
            /\ \A i \in RecsWhere(LAMBDA r : r.title \in {"High carbohydrate ratio",
                                                          "High fat intake"}) :
                  Recs[i].priority = 2

\* a day whose fat share is above 50% while carbohydrates were eaten too
C11_Witness ==
    /\ IsRecs
    /\ HasTitle("High fat intake")
    /\ resp.ctx.todaySummary.totalCarbs > 0
    /\ ~HasTitle("High carbohydrate ratio")

-----------------------------------------------------------------------------
(* Properties: macro breakdown (checked under SpecMacro)                   *)

IsMacros == resp.op = "getMacroBreakdown"

\* C12: for non-negative gram totals with 4*protein + 4*carbs + 9*fat > 0 the
\* three percentages of the distribution, each the rounded share of the
\* calories from that macronutrient (4, 4 and 9 kcal per gram), add up to 99,
\* 100 or 101.
C12_PercentagesSum ==
    IsMacros =>
        LET t == resp.body.totals
            d == resp.body.distribution
            total == 4 * t.protein + 4 * t.carbs + 9 * t.fat
        IN  total > 0 =>
               /\ d.protein + d.carbs + d.fat \in {99, 100, 101}
               \* each percentage is the nearest integer to 100 * share
               /\ 2 * d.protein * total - total <= 2 * 100 * 4 * t.protein
               /\ 2 * 100 * 4 * t.protein < 2 * d.protein * total + total
               /\ 2 * d.carbs * total - total <= 2 * 100 * 4 * t.carbs
               /\ 2 * 100 * 4 * t.carbs < 2 * d.carbs * total + total
               /\ 2 * d.fat * total - total <= 2 * 100 * 9 * t.fat
               /\ 2 * 100 * 9 * t.fat < 2 * d.fat * total + total

\* a breakdown whose percentages add up to 99 (three shares of one third)
C12_Witness ==
    /\ IsMacros
    /\ resp.body.totals.fat > 0
    /\ resp.body.distribution.protein + resp.body.distribution.carbs
          + resp.body.distribution.fat = 99

\* C13: when the protein, carbohydrate and fat totals of the period are all 0
\* (no record in the period included), the distribution is protein = carbs =
\* fat = 0 and the calories from each macronutrient are 0.
C13_ZeroMacros ==
    IsMacros =>
        LET t == resp.body.totals
        IN  (t.protein = 0 /\ t.carbs = 0 /\ t.fat = 0) =>
               /\ resp.body.distribution = [protein |-> 0, carbs |-> 0, fat |-> 0]
               /\ resp.body.caloriesFromMacros = [protein |-> 0, carbs |-> 0, fat |-> 0]

\* a period with a record that carries calories but no macronutrient grams
C13_Witness ==
    /\ IsMacros
    /\ resp.body.totals.calories > 0
    /\ resp.body.totals.protein = 0 /\ resp.body.totals.carbs = 0
    /\ resp.body.totals.fat = 0
    /\ resp.body.distribution = [protein |-> 0, carbs |-> 0, fat |-> 0]

-----------------------------------------------------------------------------
(* Properties: trend statistics (checked under Spec)                       *)

TrendDaysWithMeals(b) == {i \in 1..Len(b.trends) : b.trends[i].mealCount > 0}

\* a is the nearest integer to total / n, halves rounded up (n > 0)
IsRoundedQuotient(a, total, n) ==
    /\ 2 * a * n - n <= 2 * total
    /\ 2 * total < 2 * a * n + n

\* C14: in the summary of a trends response, totalDays is the number of
\* points, daysWithMeals the number of points with mealCount > 0, the totals
\* are the sums over the points, and each average (calories, protein, carbs,
\* fat) is round(total / daysWithMeals) when daysWithMeals > 0 and 0 when
\* daysWithMeals = 0.
C14_TrendAverages ==
    IsTrends =>
        LET b == resp.body
            sm == b.summary
            n == Cardinality(TrendDaysWithMeals(b))
        IN  /\ sm.totalDays = Len(b.trends)
            /\ sm.daysWithMeals = n
            /\ \A f \in {"calories", "protein", "carbs", "fat"} :
                  /\ sm.totals[f] = SumSeq(b.trends, f)
                  /\ n > 0 => IsRoundedQuotient(sm.averages[f], sm.totals[f], n)
                  /\ n = 0 => sm.averages[f] = 0

\* two tracked days in the window and an average that had to be rounded up
C14_Witness ==
    /\ IsTrends
    /\ resp.body.summary.daysWithMeals = 2
    /\ resp.body.summary.totalDays > 2
    /\ 2 * resp.body.summary.averages.protein = resp.body.summary.totals.protein + 1

-----------------------------------------------------------------------------
(* Properties: meal suggestions (checked under SpecSug)                    *)

\* a response that carries a suggestion result, over HTTP or from the service
IsSuggestions ==
    /\ resp.op \in {"getSuggestions", "getMealSuggestions"}
    /\ resp.engineCalls = 1

\* ... for one of the four slots
IsSlotSuggestions == IsSuggestions /\ resp.mealType \in MealTypes

Sugs == resp.body.suggestions

SugUser == users[resp.user]

\* the score of the claim: 100, -30 / +20 / +15 / +20
ClaimedScore(n, remaining, goal) ==
    100 + (IF 5 * n.calories > 6 * remaining.calories THEN -30 ELSE 0)
        + (IF remaining.protein > 20 /\ n.protein >= 15 THEN 20 ELSE 0)
        + (IF goal = "lose-weight" /\ 5 * n.calories <= 2 * remaining.calories
           THEN 15 ELSE 0)
        + (IF goal = "build-muscle" /\ n.protein >= 20 THEN 20 ELSE 0)

\* C15: the matchScore of a suggestion is 100, minus 30 if the candidate's
\* calories exceed 1.2 x the remaining calories, plus 20 if the remaining
\* protein exceeds 20 g and the candidate has at least 15 g protein, plus 15
\* if the goal is lose-weight and the candidate's calories are at most 0.4 x
\* the remaining calories, plus 20 if the goal is build-muscle and the
\* candidate has at least 20 g protein.
C15_MatchScore ==
    IsSuggestions =>
        \A i \in 1..Len(Sugs) :
            Sugs[i].matchScore = ClaimedScore(Sugs[i].nutrition, resp.body.remainingNutrition,
                                              SugUser.profile.goal)

\* a 500 kcal candidate against 300 kcal remaining, no bonus: 70
C15_Witness ==
    /\ IsSuggestions
    /\ resp.body.remainingNutrition.calories = 300
    /\ \E i \in 1..Len(Sugs) :
          /\ Sugs[i].nutrition.calories = 500
          /\ Sugs[i].matchScore = 70

\* positions of the slot's catalog that pass the diet filter of the claim
Candidates ==
    LET catalog == mealDatabase[resp.mealType]
    IN  {k \in 1..Len(catalog) :
            \/ SugUser.preferences.dietType \notin {"vegetarian", "vegan"}
            \/ catalog[k].tags \cap {"vegetarian", "vegan"} # {}}

\* the catalog position of the i-th suggestion (0 when it is from no candidate)
PositionOf(i) ==
    LET catalog == mealDatabase[resp.mealType]
        hits == {k \in Candidates :
                    /\ catalog[k].name = Sugs[i].name
                    /\ catalog[k].tags = Sugs[i].tags
                    /\ Sugs[i].nutrition = [calories |-> catalog[k].calories,
                                            protein  |-> catalog[k].protein,
                                            carbs    |-> catalog[k].carbs,
                                            fat      |-> catalog[k].fat]}
    IN  IF hits = {} THEN 0 ELSE CHOOSE k \in hits : TRUE

\* C16: the result holds min(5, number of candidates passing the diet filter)
\* suggestions, each a distinct candidate of the requested slot's catalog, in
\* non-increasing matchScore order with equal scores in catalog order, and no
\* candidate left out scores higher than a returned one.
C16_TopFive ==
    IsSlotSuggestions =>
        LET catalog == mealDatabase[resp.mealType]
            n == Cardinality(Candidates)
            returned == {PositionOf(i) : i \in 1..Len(Sugs)}
            score(k) == ClaimedScore(catalog[k], resp.body.remainingNutrition,
                                     SugUser.profile.goal)
        IN  /\ Len(Sugs) = IF n < 5 THEN n ELSE 5
            /\ 0 \notin returned
            /\ Cardinality(returned) = Len(Sugs)
            /\ \A i \in 1..Len(Sugs) : Sugs[i].matchScore = score(PositionOf(i))
            /\ \A i, j \in 1..Len(Sugs) :
                  i < j => \/ Sugs[i].matchScore > Sugs[j].matchScore
                           \/ /\ Sugs[i].matchScore = Sugs[j].matchScore
                              /\ PositionOf(i) < PositionOf(j)
            /\ \A k \in Candidates \ returned :
                  \A i \in 1..Len(Sugs) : score(k) <= Sugs[i].matchScore

\* seven candidates, five returned: one from behind catalog position 5 is
\* returned while an earlier candidate, scoring less, is left out
C16_Witness ==
    /\ IsSlotSuggestions
    /\ Cardinality(Candidates) = 7
    /\ Len(Sugs) = 5
    /\ \E i \in 1..Len(Sugs) :
          /\ PositionOf(i) > 5
          /\ \E k \in Candidates \ {PositionOf(j) : j \in 1..Len(Sugs)} :
                k < PositionOf(i)

\* C17: for calories, protein, carbs and fat the remaining nutrition is
\* max(0, target - consumed today), never negative.
C17_Remaining ==
    IsSuggestions =>
        LET consumed == getDailySummary(meals, tz, resp.user, now)
            target   == SugUser.dailyTargets
            r        == resp.body.remainingNutrition
            Max0(x)  == IF x > 0 THEN x ELSE 0
        IN  /\ r.calories = Max0(target.calories - consumed.totalCalories)
            /\ r.protein  = Max0(target.protein - consumed.totalProtein)
            /\ r.carbs    = Max0(target.carbs - consumed.totalCarbs)
            /\ r.fat      = Max0(target.fat - consumed.totalFat)
            /\ \A f \in {"calories", "protein", "carbs", "fat"} : r[f] >= 0

\* consumption above the calorie target and below the carbohydrate target
C17_Witness ==
    /\ IsSuggestions
    /\ getDailySummary(meals, tz, resp.user, now).totalCalories
          > SugUser.dailyTargets.calories
    /\ resp.body.remainingNutrition.calories = 0
    /\ resp.body.remainingNutrition.carbs > 0

\* C18: with dietType vegetarian or vegan every returned suggestion carries
\* the tag 'vegetarian' or 'vegan' and the suggestions are drawn from exactly
\* the catalog items carrying one of them; with dietType none, keto, paleo or
\* mediterranean the candidate set is the slot's whole catalog.
C18_DietFilter ==
    IsSlotSuggestions =>
        LET catalog == mealDatabase[resp.mealType]
            tagged  == {k \in 1..Len(catalog) :
                           "vegetarian" \in catalog[k].tags \/ "vegan" \in catalog[k].tags}
            names(S) == {catalog[k].name : k \in S}
            given   == {Sugs[i].name : i \in 1..Len(Sugs)}
            Min5(x) == IF x < 5 THEN x ELSE 5
        IN  IF SugUser.preferences.dietType \in {"vegetarian", "vegan"}
            THEN /\ \A i \in 1..Len(Sugs) :
                       "vegetarian" \in Sugs[i].tags \/ "vegan" \in Sugs[i].tags
                 /\ given \subseteq names(tagged)
                 /\ Cardinality(given) = Min5(Cardinality(tagged))
            ELSE /\ given \subseteq names(1..Len(catalog))
                 /\ Cardinality(given) = Min5(Len(catalog))

\* a vegan user asking for lunch: the four tagged items of six
C18_Witness ==
    /\ IsSlotSuggestions
    /\ SugUser.preferences.dietType = "vegan"
    /\ resp.mealType = "lunch"
    /\ Len(Sugs) = 4
    /\ \A i \in 1..Len(Sugs) : "vegetarian" \in Sugs[i].tags

\* C19: a meal-slot tag outside {breakfast, lunch, dinner, snack} is answered
\* 400 by GET /api/recommendations/meals/:mealType without a call of
\* getMealSuggestions, and getMealSuggestions itself never turns such a tag
\* into a successful (empty) suggestion result.
C19_UnknownSlotRejected ==
    resp.op \in {"getSuggestions", "getMealSuggestions"} /\ resp.mealType \notin MealTypes
        => /\ resp.op = "getSuggestions" => resp.status = 400 /\ resp.engineCalls = 0
           /\ resp.op = "getMealSuggestions" => resp.status # "fulfilled"

-----------------------------------------------------------------------------
(* Properties: the instant of an evaluation (checked under SpecClock)      *)

\* C20: generateDailyRecommendations evaluates one consistent instant: the
\* day whose summary it reads, the start of its 7-day window and the hour its
\* rules test are those of one clock reading taken during the call, also when
\* the clock advances while the store reads are awaited.
C20_OneInstant ==
    IsRecs =>
        \E t \in resp.started..resp.finished :
            resp.ctx = RecContext(users, meals, tz, t, resp.user)

-----------------------------------------------------------------------------
(* Properties: the analytics are read-only (checked under SpecFrame)       *)

AnalyticsOps ==
    {"getDailySummary", "getCalorieTrends", "getMacroBreakdown", "getRecommendations",
     "getSuggestions", "getMealSuggestions"}

\* C21: a call of getDailySummary, getCalorieTrends, getMacroBreakdown,
\* generateDailyRecommendations or getMealSuggestions leaves the set of stored
\* meal records and every user's dailyTargets, profile and preferences as
\* they were before the call.
C21_ReadOnly ==
    [][resp'.op \in AnalyticsOps => (meals' = meals /\ users' = users)]_vars

\* recommendations computed for a user without a stored goal over a store
\* that holds records of both users
C21_Witness ==
    /\ resp.op = "getRecommendations"
    /\ users[resp.user].profile.goal = "undefined"
    /\ \A u \in Users : \E m \in meals : m.user = u

-----------------------------------------------------------------------------
(* Accounts: User schema paths, tokens, register, profile and targets      *)

\* the addresses requests carry
Emails == {"ann@x.io", "Ann@X.io", "bob@x.io"}

Passwords == {"secret1", "secret2"}

\* String.prototype.toLowerCase on the addresses drawn
toLowerCase(e) == IF e = "Ann@X.io" THEN "ann@x.io" ELSE e

\* express-validator's normalizeEmail: lower-cases the address
normalizeEmail(e) == toLowerCase(e)

\* bcrypt hash of a password (pre('save')), compared by comparePassword
bcryptHash(pw) == <<"bcrypt", pw>>

sha256(token) == <<"sha256", token>>

\* variant: the schema also declares the two refresh-token paths
UserSchemaPaths_WithRefreshToken ==
    {"email", "password", "profile", "dailyTargets", "preferences", "isActive",
     "refreshToken", "refreshTokenExpiry"}

\* the paths the User schema declares (of those the model keeps)
UserSchemaPaths ==
    {"email", "password", "profile", "dailyTargets", "preferences", "isActive"}

\* a record overlaid with the fields of a patch: { ...base, ...patch }
Spread(base, patch) ==
    [f \in DOMAIN base \cup DOMAIN patch |->
        IF f \in DOMAIN patch THEN patch[f] ELSE base[f]]

\* Mongoose casts an update under the schema's strict mode: paths the schema
\* does not declare are dropped from the update
CastUpdate(update) ==
    [p \in DOMAIN update \cap UserSchemaPaths |-> update[p]]

\* User.findByIdAndUpdate(id, update)
findByIdAndUpdate(us, id, update) ==
    IF id \in DOMAIN us
        THEN [us EXCEPT ![id] = Spread(@, CastUpdate(update))]
        ELSE us

\* the document User.create stores: the schema's setters and defaults
NewUser(email, password) ==
    [email        |-> toLowerCase(email),
     password     |-> bcryptHash(password),
     isActive     |-> TRUE,
     profile      |-> [age |-> 0, gender |-> "undefined", height |-> 0, weight |-> 0,
                       activityLevel |-> "moderate", goal |-> "maintain"],
     dailyTargets |-> DefaultUser.dailyTargets,
     preferences  |-> DefaultUser.preferences]

\* variant: the collection has no unique index on email
DuplicateKey_NoIndex(us, email) == FALSE

\* the unique index on email: an insert of a stored address fails with E11000
DuplicateKey(us, email) ==
    \E u \in DOMAIN us : us[u].email = toLowerCase(email)

RefreshTokenExpiryDays == 7

\* jwt.sign({ userId, type: 'access' }, secret): the payload and the time of
\* issue, the clock's hour t and the instant n within it
generateAccessToken(userId, t, n) ==
    [kind |-> "access", userId |-> userId, iat |-> t, instant |-> n]

\* crypto.randomBytes(40): a value no earlier token has
generateRefreshToken(n) == [kind |-> "refresh", value |-> n]

\* saveRefreshToken: the hash and the expiry written with findByIdAndUpdate
saveRefreshToken(us, userId, token, t) ==
    findByIdAndUpdate(us, userId,
        [refreshToken       |-> sha256(token),
         refreshTokenExpiry |-> t + RefreshTokenExpiryDays * HoursPerDay])

\* clearRefreshToken: both paths set to null
clearRefreshToken(us, userId) ==
    findByIdAndUpdate(us, userId,
        [refreshToken |-> <<>>, refreshTokenExpiry |-> 0])

\* generateTokens(userId) with n the random value drawn: the pair returned
\* and the collection after saveRefreshToken
generateTokens(us, userId, n, t) ==
    [accessToken  |-> generateAccessToken(userId, t, n),
     refreshToken |-> generateRefreshToken(n),
     users        |-> saveRefreshToken(us, userId, generateRefreshToken(n), t)]

MaxIds == 6

\* the record of a token handed out: the operation that returned it, the
\* user it is for, the hour, and the refresh token the request presented
Handed(token, by, userId, t, presented) ==
    [token |-> token, by |-> by, user |-> userId, at |-> t, presented |-> presented]

\* both tokens of a generateTokens result, as handed out by operation by
HandedPair(tokens, by, userId, t, presented) ==
    {Handed(tokens.accessToken, by, userId, t, presented),
     Handed(tokens.refreshToken, by, userId, t, presented)}

\* POST /api/auth/register arrives and passes registerValidation
RegisterStart(c, email, password) ==
    /\ inflight[c] = NoCall
    /\ inflight' = [inflight EXCEPT ![c] =
            [pc |-> "findOne", op |-> "register",
             sent |-> email, email |-> normalizeEmail(email), password |-> password]]
    /\ UNCHANGED <<users, meals, nextId, tz, now, resp, pending, issued, authStore, water, cache>>

\* register: await User.findOne({ email }) and the conflict it throws
RegisterFind(c) ==
    /\ inflight[c].pc = "findOne" /\ inflight[c].op = "register"
    /\ IF \E u \in DOMAIN users : users[u].email = toLowerCase(inflight[c].email)
          THEN /\ resp' = [op |-> "register", client |-> c, status |-> 409,
                           message |-> "An account with this email already exists"]
               /\ inflight' = [inflight EXCEPT ![c] = NoCall]
          ELSE /\ inflight' = [inflight EXCEPT ![c].pc = "create"]
               /\ UNCHANGED resp
    /\ UNCHANGED <<users, meals, nextId, tz, now, pending, issued, authStore, water, cache>>

\* register: await User.create, generateTokens and the 201 response; a
\* duplicate key error reaches normalizeError, which answers 409
RegisterCreate(c) ==
    /\ inflight[c].pc = "create" /\ inflight[c].op = "register"
    /\ nextId + 1 <= MaxIds
    /\ inflight' = [inflight EXCEPT ![c] = NoCall]
    /\ IF DuplicateKey(users, inflight[c].email)
          THEN /\ resp' = [op |-> "register", client |-> c, status |-> 409,
                           message |-> "email already exists"]
               /\ UNCHANGED <<users, nextId, issued, authStore, water, cache>>
          ELSE LET id      == nextId
                   created == users @@ (id :> NewUser(inflight[c].email, inflight[c].password))
                   tokens  == generateTokens(created, id, nextId + 1, now)
               IN  /\ users' = tokens.users
                   /\ nextId' = nextId + 2
                   /\ issued' = issued \cup HandedPair(tokens, "register", id, now, 0)
                   /\ resp' = [op |-> "register", client |-> c, status |-> 201,
                               user |-> id, token |-> tokens.accessToken,
                               refreshToken |-> tokens.refreshToken]
    /\ UNCHANGED <<meals, tz, now, pending, authStore, water, cache>>

ActivityMultipliers ==
    [sedentary |-> 1200, light |-> 1375, moderate |-> 1550, active |-> 1725]
        @@ ("very-active" :> 1900)

GoalAdjustments ==
    ("lose-weight" :> 0 - 500) @@ ("maintain" :> 0) @@ ("gain-weight" :> 300)
        @@ ("build-muscle" :> 400)

\* userSchema.methods.calculateDailyCalories (Mifflin-St Jeor); bmr is kept
\* in quarters and the multiplier in thousandths, so tdee is n / 4000
calculateDailyCalories(doc) ==
    LET p    == doc.profile
        bmr4 == IF p.gender = "male"
                    THEN 40 * p.weight + 25 * p.height - 20 * p.age + 20
                    ELSE 40 * p.weight + 25 * p.height - 20 * p.age - 644
        mult == IF p.activityLevel \in DOMAIN ActivityMultipliers
                    THEN ActivityMultipliers[p.activityLevel] ELSE 1550
        adj  == IF p.goal \in DOMAIN GoalAdjustments THEN GoalAdjustments[p.goal] ELSE 0
    IN  IF p.age = 0 \/ p.gender = "undefined" \/ p.height = 0 \/ p.weight = 0
            THEN doc.dailyTargets.calories
            ELSE Round(bmr4 * mult + 4000 * adj, 4000)

\* request bodies that pass profileValidation
ProfilePatches ==
    {[age |-> 30, gender |-> "male", height |-> 175, weight |-> 70],
     [age |-> 150, gender |-> "female", height |-> 50, weight |-> 20,
      activityLevel |-> "sedentary", goal |-> "lose-weight"],
     [goal |-> "gain-weight"]}

\* PUT /api/auth/profile with a profile in the body, by the signed-in user u
UpdateProfile(u, profile) ==
    /\ u \in DOMAIN users /\ users[u].isActive
    /\ LET updated    == findByIdAndUpdate(users, u,
                            [profile |-> Spread(users[u].profile, profile)])
           calculated == calculateDailyCalories(updated[u])
           targets    == [updated[u].dailyTargets EXCEPT
                              !.calories = calculated,
                              !.protein  = Round(calculated, 20),
                              !.carbs    = Round(calculated, 8),
                              !.fat      = Round(calculated, 30)]
       IN  /\ users' = [updated EXCEPT ![u].dailyTargets = targets]
           /\ resp' = [op |-> "updateProfile", user |-> u, status |-> 200,
                       dailyTargets |-> targets]
    /\ UNCHANGED <<meals, nextId, tz, now, pending, inflight, issued, authStore, water, cache>>

\* request bodies that pass targetsValidation
TargetPatches ==
    {[protein |-> 0], [calories |-> 500, fiber |-> 0], [water |-> 12]}

\* PUT /api/auth/targets, by the signed-in user u
UpdateTargets(u, body) ==
    /\ u \in DOMAIN users /\ users[u].isActive
    /\ users' = findByIdAndUpdate(users, u,
                    [dailyTargets |-> Spread(users[u].dailyTargets, body)])
    /\ resp' = [op |-> "updateTargets", user |-> u, status |-> 200,
                dailyTargets |-> users'[u].dailyTargets]
    /\ UNCHANGED <<meals, nextId, tz, now, pending, inflight, issued, authStore, water, cache>>

InitAccounts ==
    /\ users = [u \in {} |-> DefaultUser]
    /\ meals = {}
    /\ nextId = 1
    /\ tz = 0
    /\ now = Now0
    /\ resp = NoResp
    /\ pending = NoCall
    /\ cache = EmptyCache
    /\ water = {}
    /\ authStore = InitialAuthState
    /\ inflight = [c \in Clients |-> NoCall]
    /\ issued = {}

NextAccounts ==
    \/ \E e \in {"ann@x.io", "bob@x.io"} : RegisterStart("c1", e, "secret1")
    \/ RegisterFind("c1")
    \/ RegisterCreate("c1")
    \/ \E u \in DOMAIN users, p \in ProfilePatches : UpdateProfile(u, p)
    \/ \E u \in DOMAIN users, b \in TargetPatches : UpdateTargets(u, b)

SpecAccounts == InitAccounts /\ [][NextAccounts]_vars

\* concurrent registrations
NextRegister ==
    \/ \E c \in Clients, e \in Emails, pw \in Passwords : RegisterStart(c, e, pw)
    \/ \E c \in Clients : RegisterFind(c)
    \/ \E c \in Clients : RegisterCreate(c)

SpecRegister == InitAccounts /\ [][NextRegister]_vars

-----------------------------------------------------------------------------
(* Properties: accounts (checked under SpecAccounts)                       *)

TargetFields == {"calories", "protein", "carbs", "fat", "fiber", "water"}

\* C22: after any sequence of register, updateProfile and updateTargets calls
\* that pass validation, every field of every user's dailyTargets (calories,
\* protein, carbs, fat, fiber, water) is strictly positive.
C22_TargetsPositive ==
    \A u \in DOMAIN users : \A f \in TargetFields : users[u].dailyTargets[f] > 0

-----------------------------------------------------------------------------
(* Properties: registration (checked under SpecRegister)                   *)

\* client c's register request, in flight, carries an address some stored
\* user already has, compared without regard to case
RegistersStoredEmail(c) ==
    /\ inflight[c].pc # "idle"
    /\ inflight[c].op = "register"
    /\ \E u \in DOMAIN users : toLowerCase(users[u].email) = toLowerCase(inflight[c].sent)

-----------------------------------------------------------------------------
(* The client's auth store: login, register, logout, checkAuth             *)

\* set(partial): the store's state with the given fields replaced
SetState(partial) == Spread(authStore, partial)

\* the answers authApi can give: a success body or a rejection
ApiAnswers ==
    {[success |-> TRUE, user |-> "ann", token |-> "jwt1"],
     [success |-> TRUE, user |-> "ann", token |-> "jwt2"],
     [success |-> FALSE, message |-> "Invalid email or password"]}

\* the in-flight calls a logout overtakes, remembered for the properties
Overtake(calls) ==
    [c \in DOMAIN calls |->
        IF calls[c] = NoCall THEN NoCall ELSE [calls[c] EXCEPT !.overtaken = TRUE]]

\* login(credentials) / register(data) up to the await of authApi
StoreSignInStart(c, op) ==
    /\ inflight[c] = NoCall
    /\ authStore' = SetState([isLoading |-> TRUE, error |-> "null"])
    /\ inflight' = [inflight EXCEPT ![c] = [pc |-> "await", op |-> op, overtaken |-> FALSE]]
    /\ UNCHANGED <<users, meals, nextId, tz, now, resp, pending, issued, water, cache>>

\* login / register from the answer of authApi on
StoreSignInDone(c, answer) ==
    /\ inflight[c].pc = "await" /\ inflight[c].op \in {"login", "register"}
    /\ authStore' =
          IF answer.success
              THEN SetState([user |-> answer.user, token |-> answer.token,
                             isAuthenticated |-> TRUE, isLoading |-> FALSE])
              ELSE SetState([error |-> answer.message, isLoading |-> FALSE])
    /\ resp' = [op |-> inflight[c].op, success |-> answer.success,
                overtaken |-> inflight[c].overtaken]
    /\ inflight' = [inflight EXCEPT ![c] = NoCall]
    /\ UNCHANGED <<users, meals, nextId, tz, now, pending, issued, water, cache>>

\* logout()
StoreLogout ==
    /\ authStore' = SetState([user |-> "null", token |-> "null", isAuthenticated |-> FALSE,
                              isLoading |-> FALSE, error |-> "null"])
    /\ resp' = [op |-> "logout", success |-> TRUE, overtaken |-> FALSE]
    /\ inflight' = Overtake(inflight)
    /\ UNCHANGED <<users, meals, nextId, tz, now, pending, issued, water, cache>>

\* updateUser(userData)
StoreUpdateUser(userData) ==
    /\ authStore.user # "null"
    /\ authStore' = SetState([user |-> userData])
    /\ UNCHANGED <<users, meals, nextId, tz, now, resp, pending, inflight, issued, water, cache>>

\* checkAuth() up to the await of authApi.getMe, or to its early return
StoreCheckAuthStart(c) ==
    /\ inflight[c] = NoCall
    /\ IF authStore.token = "null"
          THEN /\ authStore' = SetState([isLoading |-> FALSE, isAuthenticated |-> FALSE])
               /\ resp' = [op |-> "checkAuth", success |-> FALSE, overtaken |-> FALSE]
               /\ UNCHANGED inflight
          ELSE /\ inflight' = [inflight EXCEPT ![c] =
                      [pc |-> "await", op |-> "checkAuth", overtaken |-> FALSE]]
               /\ UNCHANGED <<authStore, resp, water, cache>>
    /\ UNCHANGED <<users, meals, nextId, tz, now, pending, issued, water, cache>>

\* checkAuth from the answer of authApi.getMe on
StoreCheckAuthDone(c, answer) ==
    /\ inflight[c].pc = "await" /\ inflight[c].op = "checkAuth"
    /\ authStore' =
          IF answer.success
              THEN SetState([user |-> answer.user, isAuthenticated |-> TRUE,
                             isLoading |-> FALSE])
              ELSE SetState([user |-> "null", token |-> "null", isAuthenticated |-> FALSE,
                             isLoading |-> FALSE])
    /\ resp' = [op |-> "checkAuth", success |-> answer.success,
                overtaken |-> inflight[c].overtaken]
    /\ inflight' = [inflight EXCEPT ![c] = NoCall]
    /\ UNCHANGED <<users, meals, nextId, tz, now, pending, issued, water, cache>>

InitStore ==
    /\ users = [u \in Users |-> DefaultUser]
    /\ meals = {}
    /\ nextId = 1
    /\ tz = 0
    /\ now = Now0
    /\ resp = NoResp
    /\ pending = NoCall
    /\ cache = EmptyCache
    /\ water = {}
    /\ inflight = [c \in Clients |-> NoCall]
    /\ issued = {}
    /\ authStore = InitialAuthState

NextStore ==
    \/ \E c \in Clients, op \in {"login", "register"} : StoreSignInStart(c, op)
    \/ \E c \in Clients, a \in ApiAnswers : StoreSignInDone(c, a)
    \/ StoreLogout
    \/ StoreUpdateUser("ann2")
    \/ \E c \in Clients : StoreCheckAuthStart(c)
    \/ \E c \in Clients, a \in ApiAnswers : StoreCheckAuthDone(c, a)

SpecStore == InitStore /\ [][NextStore]_vars

-----------------------------------------------------------------------------
(* Properties: the auth store (checked under SpecStore)                    *)

\* C24: after logout() the auth store is unauthenticated (user null, token
\* null, isAuthenticated false) and stays so until a login or register started
\* after the logout succeeds: the answer of a checkAuth, login or register that
\* the logout overtook does not set isAuthenticated back to true; and in every
\* reachable state isAuthenticated implies a token.
C24_LogoutSticks ==
    /\ resp.op = "logout"
          => authStore.user = "null" /\ authStore.token = "null"
             /\ ~authStore.isAuthenticated
    /\ resp.op \in {"login", "register", "checkAuth"} /\ resp.overtaken
          => ~authStore.isAuthenticated
    /\ authStore.isAuthenticated => authStore.token # "null"

-----------------------------------------------------------------------------
(* Tokens: login, refresh, logout, changePassword and protect              *)

\* the tokens of a kind that clients hold
TokensHeld(kind) == {e.token : e \in {h \in issued : h.token.kind = kind}}

\* ACCESS_TOKEN_EXPIRY = '15m' is shorter than one step of the clock: an
\* access token is valid within the hour of its issue
jwtVerify(token, t) == t <= token.iat

\* variant: a user document is returned whenever the user exists
verifyRefreshToken_AnyToken(us, userId, token, t) ==
    [user |-> IF userId \in DOMAIN us THEN userId ELSE 0, users |-> us]

\* verifyRefreshToken(userId, refreshToken) at clock t: the user found (0 for
\* null) and the collection afterwards (an expired token is cleared)
verifyRefreshToken(us, userId, token, t) ==
    IF \/ userId \notin DOMAIN us
       \/ "refreshToken" \notin DOMAIN us[userId]
       \/ us[userId].refreshToken = <<>>
        THEN [user |-> 0, users |-> us]
    ELSE IF us[userId].refreshToken # sha256(token)
        THEN [user |-> 0, users |-> us]
    ELSE IF us[userId].refreshTokenExpiry < t
        THEN [user |-> 0, users |-> clearRefreshToken(us, userId)]
    ELSE [user |-> userId, users |-> us]

\* protect: the bearer token verifies, its user exists and is active
protect(us, token, t) ==
    /\ jwtVerify(token, t)
    /\ token.userId \in DOMAIN us
    /\ us[token.userId].isActive

\* POST /api/auth/login
Login(email, password) ==
    /\ nextId <= MaxIds
    /\ LET found == {u \in DOMAIN users : users[u].email = toLowerCase(normalizeEmail(email))}
       IN  IF found = {}
                 \/ \E v \in found : \/ ~users[v].isActive
                                      \/ users[v].password # bcryptHash(password)
               THEN /\ resp' = [op |-> "login", status |-> 401]
                    /\ UNCHANGED <<users, nextId, issued, water, cache>>
               ELSE LET id     == CHOOSE v \in found : TRUE
                        tokens == generateTokens(users, id, nextId, now)
                    IN  /\ users' = tokens.users
                        /\ nextId' = nextId + 1
                        /\ issued' = issued \cup HandedPair(tokens, "login", id, now, 0)
                        /\ resp' = [op |-> "login", status |-> 200, user |-> id,
                                    token |-> tokens.accessToken,
                                    refreshToken |-> tokens.refreshToken]
    /\ UNCHANGED <<meals, tz, now, pending, inflight, authStore, water, cache>>

\* POST /api/auth/refresh up to the answer of verifyRefreshToken
RefreshVerify(c, userId, refreshToken) ==
    /\ inflight[c] = NoCall
    /\ LET verified == verifyRefreshToken(users, userId, refreshToken, now)
       IN  /\ users' = verified.users
           /\ inflight' = [inflight EXCEPT ![c] =
                  [pc |-> "verified", op |-> "refresh", userId |-> userId,
                   presented |-> refreshToken, user |-> verified.user]]
    /\ UNCHANGED <<meals, nextId, tz, now, resp, pending, issued, authStore, water, cache>>

\* POST /api/auth/refresh from the answer of verifyRefreshToken on
RefreshRespond(c) ==
    /\ inflight[c].pc = "verified" /\ inflight[c].op = "refresh"
    /\ nextId <= MaxIds
    /\ inflight' = [inflight EXCEPT ![c] = NoCall]
    /\ IF inflight[c].user = 0 \/ ~users[inflight[c].user].isActive
          THEN /\ resp' = [op |-> "refresh", status |-> 401, client |-> c,
                           presented |-> inflight[c].presented]
               /\ UNCHANGED <<users, nextId, issued, water, cache>>
          ELSE LET id     == inflight[c].user
                   tokens == generateTokens(users, id, nextId, now)
               IN  /\ users' = tokens.users
                   /\ nextId' = nextId + 1
                   /\ issued' = issued \cup
                          HandedPair(tokens, "refresh", id, now, inflight[c].presented.value)
                   /\ resp' = [op |-> "refresh", status |-> 200, client |-> c,
                               presented |-> inflight[c].presented,
                               token |-> tokens.accessToken,
                               refreshToken |-> tokens.refreshToken]
    /\ UNCHANGED <<meals, tz, now, pending, authStore, water, cache>>

\* POST /api/auth/logout with a bearer token
Logout(token) ==
    /\ IF protect(users, token, now)
          THEN /\ users' = clearRefreshToken(users, token.userId)
               /\ resp' = [op |-> "logout", status |-> 200, user |-> token.userId]
          ELSE /\ resp' = [op |-> "logout", status |-> 401, user |-> 0]
               /\ UNCHANGED users
    /\ UNCHANGED <<meals, nextId, tz, now, pending, inflight, issued, authStore, water, cache>>

\* GET /api/auth/me with a bearer token
GetMe(token) ==
    /\ resp' = [op |-> "getMe", presented |-> token,
                status |-> IF protect(users, token, now) THEN 200 ELSE 401]
    /\ UNCHANGED <<users, meals, nextId, tz, now, pending, inflight, issued, authStore, water, cache>>

\* PUT /api/auth/password with a bearer token
ChangePassword(token, currentPassword, newPassword) ==
    /\ nextId <= MaxIds
    /\ IF ~protect(users, token, now)
          \/ users[token.userId].password # bcryptHash(currentPassword)
          THEN /\ resp' = [op |-> "changePassword", status |-> 401]
               /\ UNCHANGED <<users, nextId, issued, water, cache>>
          ELSE LET id      == token.userId
                   saved   == [users EXCEPT ![id].password = bcryptHash(newPassword)]
                   tokens  == generateTokens(saved, id, nextId, now)
               IN  /\ users' = tokens.users
                   /\ nextId' = nextId + 1
                   /\ issued' = issued \cup HandedPair(tokens, "changePassword", id, now, 0)
                   /\ resp' = [op |-> "changePassword", status |-> 200, user |-> id,
                               token |-> tokens.accessToken]
    /\ UNCHANGED <<meals, tz, now, pending, inflight, authStore, water, cache>>

DaysPerTick == 4

\* the clock passes DaysPerTick days
TickDays ==
    /\ now < Now0 + MaxTicks * DaysPerTick * HoursPerDay
    /\ now' = now + DaysPerTick * HoursPerDay
    /\ UNCHANGED <<users, meals, nextId, tz, resp, pending, inflight, issued, authStore, water, cache>>

NextTokens ==
    \/ RegisterStart("c1", "Ann@X.io", "secret1")
    \/ RegisterFind("c1")
    \/ RegisterCreate("c1")
    \/ \E pw \in Passwords : Login("ann@x.io", pw)
    \/ \E c \in Clients, u \in DOMAIN users, rt \in TokensHeld("refresh") :
           RefreshVerify(c, u, rt)
    \/ \E c \in Clients : RefreshRespond(c)
    \/ \E t \in TokensHeld("access") : Logout(t)
    \/ \E t \in TokensHeld("access") : GetMe(t)
    \/ \E t \in TokensHeld("access") : ChangePassword(t, "secret1", "secret2")
    \/ TickDays

SpecTokens == InitAccounts /\ [][NextTokens]_vars

-----------------------------------------------------------------------------
(* Properties: tokens (checked under SpecTokens)                           *)

\* the refresh tokens handed out by POST /api/auth/refresh
RefreshHandouts == {h \in issued : h.by = "refresh" /\ h.token.kind = "refresh"}

Accepted(u) ==
    {rt \in TokensHeld("refresh") : verifyRefreshToken(users, u, rt, now).user # 0}

C27_OldTokenRejected ==
    resp.op = "getMe" =>
        /\ resp.status = 200
              => ~\E h \in issued :
                     /\ h.by = "changePassword"
                     /\ h.user = resp.presented.userId
                     /\ h.token.kind = "access"
                     /\ h.token.instant > resp.presented.instant
        /\ (\E h \in issued : h.by = "changePassword" /\ h.token = resp.presented)
              /\ jwtVerify(resp.presented, now)
              => resp.status = 200

-----------------------------------------------------------------------------
(* Meals: the single-meal operations and bulk delete                       *)

\* Meal.findOne({ _id: id, user: u }): the matching documents (none or one)
FindOwnMeal(ms, id, u) == {m \in ms : m.id = id /\ m.user = u}

\* variant: the request body is used as the update unfiltered
UpdateDataOf_Unfiltered(body) == body

\* updateMeal's updateData: the body without user, _id, createdAt, updatedAt
UpdateDataOf(body) ==
    [f \in DOMAIN body \ {"user", "_id", "createdAt", "updatedAt"} |-> body[f]]

\* the default of the isFavorite path for a document stored without it
IsFavorite(m) == IF "isFavorite" \in DOMAIN m THEN m.isFavorite ELSE FALSE

\* request bodies of PUT /api/meals/:id that pass mealUpdateValidation
MealUpdateBodies ==
    {[mealType |-> "dinner"], [mealType |-> "snack", user |-> "u2"]}

\* GET /api/meals (first page) for user u
GetMeals(u) ==
    /\ resp' = [op |-> "getMeals", user |-> u, id |-> 0, status |-> 200,
                body |-> {m \in meals : m.user = u}]
    /\ UNCHANGED <<users, meals, nextId, tz, now, pending, inflight, issued, authStore, water, cache>>

\* GET /api/meals/:id
GetMealById(u, id) ==
    /\ resp' = [op |-> "getMealById", user |-> u, id |-> id,
                status |-> IF FindOwnMeal(meals, id, u) = {} THEN 404 ELSE 200,
                body |-> FindOwnMeal(meals, id, u)]
    /\ UNCHANGED <<users, meals, nextId, tz, now, pending, inflight, issued, authStore, water, cache>>

\* PUT /api/meals/:id
UpdateMeal(u, id, body) ==
    /\ IF FindOwnMeal(meals, id, u) = {}
          THEN /\ resp' = [op |-> "updateMeal", user |-> u, id |-> id, status |-> 404,
                           body |-> {}]
               /\ UNCHANGED meals
          ELSE LET updated(m) == Spread(m, UpdateDataOf(body))
               IN  /\ meals' = {IF m.id = id THEN updated(m) ELSE m : m \in meals}
                   /\ resp' = [op |-> "updateMeal", user |-> u, id |-> id, status |-> 200,
                               body |-> {updated(m) : m \in {x \in meals : x.id = id}}]
    /\ UNCHANGED <<users, nextId, tz, now, pending, inflight, issued, authStore, water, cache>>

\* DELETE /api/meals/:id
DeleteMeal(u, id) ==
    /\ meals' = meals \ FindOwnMeal(meals, id, u)
    /\ resp' = [op |-> "deleteMeal", user |-> u, id |-> id,
                status |-> IF FindOwnMeal(meals, id, u) = {} THEN 404 ELSE 200,
                body |-> {}]
    /\ UNCHANGED <<users, nextId, tz, now, pending, inflight, issued, authStore, water, cache>>

\* PATCH /api/meals/:id/favorite
ToggleFavorite(u, id) ==
    /\ IF FindOwnMeal(meals, id, u) = {}
          THEN /\ resp' = [op |-> "toggleFavorite", user |-> u, id |-> id, status |-> 404,
                           body |-> {}]
               /\ UNCHANGED meals
          ELSE LET toggled(m) == Spread(m, [isFavorite |-> ~IsFavorite(m)])
               IN  /\ meals' = {IF m \in FindOwnMeal(meals, id, u) THEN toggled(m) ELSE m :
                                   m \in meals}
                   /\ resp' = [op |-> "toggleFavorite", user |-> u, id |-> id,
                               status |-> 200,
                               body |-> {toggled(m) : m \in FindOwnMeal(meals, id, u)}]
    /\ UNCHANGED <<users, nextId, tz, now, pending, inflight, issued, authStore, water, cache>>

\* POST /api/meals/:id/duplicate
DuplicateMeal(u, id) ==
    /\ Cardinality(meals) < MaxMeals
    /\ IF FindOwnMeal(meals, id, u) = {}
          THEN /\ resp' = [op |-> "duplicateMeal", user |-> u, id |-> id, status |-> 404,
                           body |-> {}]
               /\ UNCHANGED <<meals, nextId, water, cache>>
          ELSE LET originalMeal == CHOOSE m \in FindOwnMeal(meals, id, u) : TRUE
                   newMeal == [id |-> nextId, user |-> u, mealType |-> originalMeal.mealType,
                               nutrition |-> originalMeal.nutrition, consumedAt |-> now]
               IN  /\ meals' = meals \cup {newMeal}
                   /\ nextId' = nextId + 1
                   /\ resp' = [op |-> "duplicateMeal", user |-> u, id |-> id, status |-> 201,
                               body |-> {newMeal}]
    /\ UNCHANGED <<users, tz, now, pending, inflight, issued, authStore, water, cache>>

\* DELETE /api/meals/bulk
BulkDeleteMeals(u, ids) ==
    /\ ids # {}
    /\ meals' = {m \in meals : ~(m.id \in ids /\ m.user = u)}
    /\ resp' = [op |-> "bulkDeleteMeals", user |-> u, id |-> 0, status |-> 200,
                body |-> {}, ids |-> ids]
    /\ UNCHANGED <<users, nextId, tz, now, pending, inflight, issued, authStore, water, cache>>

\* the meal ids requests name
MealIds == 1..2

InitMeals ==
    /\ users = [u \in Users |-> DefaultUser]
    /\ meals = {}
    /\ nextId = 1
    /\ tz = 0
    /\ now = Now0
    /\ resp = NoResp
    /\ pending = NoCall
    /\ cache = EmptyCache
    /\ water = {}
    /\ inflight = [c \in Clients |-> NoCall]
    /\ issued = {}
    /\ authStore = InitialAuthState

NextMeals ==
    \/ \E u \in Users : nextId <= MaxMeals + 1 /\ CreateMeal(u, "lunch", Nutr(500, 20, 60, 15, 5, 10, 300), Now0 - 3)
    \/ \E u \in Users : GetMeals(u)
    \/ \E u \in Users, id \in MealIds : GetMealById(u, id)
    \/ \E u \in Users, id \in MealIds, b \in MealUpdateBodies : UpdateMeal(u, id, b)
    \/ \E u \in Users, id \in MealIds : DeleteMeal(u, id)
    \/ \E u \in Users, id \in MealIds : ToggleFavorite(u, id)
    \/ \E u \in Users, id \in MealIds : nextId <= MaxMeals + 1 /\ DuplicateMeal(u, id)
    \/ \E u \in Users, ids \in SUBSET MealIds : BulkDeleteMeals(u, ids)

SpecMeals == InitMeals /\ [][NextMeals]_vars

-----------------------------------------------------------------------------
(* Properties: meal isolation (checked under SpecMeals)                    *)

MealOps ==
    {"getMeals", "getMealById", "updateMeal", "deleteMeal", "toggleFavorite",
     "duplicateMeal", "bulkDeleteMeals"}

\* C28: a request of user A never returns, updates, favorites, duplicates or
\* deletes a meal of another user B: a single-meal operation on B's meal is
\* answered 404, a bulk delete leaves B's meals, every stored meal of B is the
\* same after the request, and no update changes the owner of a meal.
C28_MealIsolation ==
    [][resp'.op \in MealOps =>
          /\ \A m \in meals : m.user # resp'.user => m \in meals'
          /\ \A m \in meals' : m.user # resp'.user => m \in meals
          /\ \A m \in resp'.body : m.user = resp'.user
          /\ (\E m \in meals : m.id = resp'.id /\ m.user # resp'.user)
                => resp'.status = 404
          /\ \A m \in meals, n \in meals' : m.id = n.id => m.user = n.user]_vars

\* an update naming another user's meal, and an own update whose body
\* carried a user field, both seen in one state: u1's request for u2's meal
\* answered 404 while u1 holds a meal an update made a snack
C28_Witness ==
    /\ resp.op = "updateMeal"
    /\ resp.status = 404
    /\ \E m \in meals : m.id = resp.id /\ m.user # resp.user
    /\ \E m \in meals : m.user = resp.user /\ m.mealType = "snack"

-----------------------------------------------------------------------------
(* Water intake: today's record, entries and the stored total              *)

MaxEntries == 2

Conversions == [ml |-> 1, glass |-> 250, bottle |-> 500, liter |-> 1000]

\* toMl(amount, unit)
toMl(amount, unit) ==
    amount * (IF unit \in DOMAIN Conversions THEN Conversions[unit] ELSE 1)

\* entries.reduce((sum, entry) => sum + toMl(entry.amount, entry.unit), 0)
RECURSIVE SumMl(_)
SumMl(entries) ==
    IF entries = <<>> THEN 0
    ELSE SumMl(Tail(entries)) + toMl(Head(entries).amount, Head(entries).unit)

\* quickAdd's presets
Presets ==
    [small  |-> [amount |-> 150, unit |-> "ml"],
     glass  |-> [amount |-> 250, unit |-> "ml"],
     bottle |-> [amount |-> 500, unit |-> "ml"],
     large  |-> [amount |-> 750, unit |-> "ml"]]

\* today at local midnight: new Date() with setHours(0, 0, 0, 0)
WaterToday == StartOfDay(now, tz)

\* req.user.dailyTargets?.water * 250 || 2000
WaterTargetOf(u) ==
    IF users[u].dailyTargets.water * 250 = 0 THEN 2000
    ELSE users[u].dailyTargets.water * 250

\* findOne({ user, date: today })
TodayRecords(u) == {r \in water : r.user = u /\ r.date = WaterToday}

\* the requests drawn: operation and argument, all passing the route's validation
WaterRequests ==
    {[op |-> "addEntry", entry |-> [amount |-> 2, unit |-> "glass"]],
     [op |-> "addEntry", entry |-> [amount |-> 300, unit |-> "ml"]],
     [op |-> "quickAdd", entry |-> Presets.bottle],
     [op |-> "updateTarget", target |-> 2500]}
        \cup {[op |-> "deleteEntry", entryId |-> id] : id \in 1..MaxEntries}

\* a water handler up to the answer of findOne in getOrCreateToday
WaterFind(c, u, req) ==
    /\ inflight[c] = NoCall
    /\ inflight' = [inflight EXCEPT ![c] =
          IF TodayRecords(u) = {}
              THEN [pc |-> "create", user |-> u, req |-> req]
              ELSE [pc |-> "loaded", user |-> u, req |-> req,
                    record |-> CHOOSE r \in TodayRecords(u) : TRUE]]
    /\ UNCHANGED <<users, meals, nextId, tz, now, resp, pending, issued, authStore, water, cache>>

\* getOrCreateToday: await this.create(...); the unique index on (user, date)
\* fails the insert of a second record with E11000, answered 409
WaterCreate(c) ==
    /\ inflight[c].pc = "create"
    /\ LET u      == inflight[c].user
           req    == inflight[c].req
           record == [user |-> u, date |-> WaterToday, entries |-> <<>>, totalMl |-> 0,
                      target |-> IF req.op = "updateTarget" THEN req.target
                                 ELSE WaterTargetOf(u),
                      version |-> 0]
       IN  IF TodayRecords(u) # {}
               THEN /\ resp' = [op |-> req.op, user |-> u, status |-> 409]
                    /\ inflight' = [inflight EXCEPT ![c] = NoCall]
                    /\ UNCHANGED water
               ELSE /\ water' = water \cup {record}
                    /\ inflight' = [inflight EXCEPT ![c] =
                           [pc |-> "loaded", user |-> u, req |-> req, record |-> record]]
                    /\ UNCHANGED resp
    /\ UNCHANGED <<users, meals, nextId, tz, now, pending, issued, authStore, cache>>

\* the stored document after save() of a loaded document: Mongoose sends the
\* modified paths only. pushed entries go as $push, a spliced array as $set
\* of the whole array, totalMl (set by pre('save')) as $set when it differs
\* from the value loaded, and an array change increments the version
SaveRecord(stored, loaded, pushed, entriesSet, target) ==
    LET entries == IF entriesSet THEN pushed ELSE loaded.entries \o pushed
        total   == SumMl(entries)
    IN  [stored EXCEPT
            !.entries = IF entriesSet THEN pushed ELSE stored.entries \o pushed,
            !.totalMl = IF total # loaded.totalMl THEN total ELSE stored.totalMl,
            !.target  = IF target # loaded.target THEN target ELSE stored.target,
            !.version = IF entriesSet \/ pushed # <<>> THEN stored.version + 1
                        ELSE stored.version]

\* the entries without the one whose _id is entryId
RECURSIVE Splice(_, _)
Splice(entries, entryId) ==
    IF entries = <<>> THEN <<>>
    ELSE IF Head(entries).id = entryId THEN Tail(entries)
    ELSE <<Head(entries)>> \o Splice(Tail(entries), entryId)

\* a water handler from the record returned by getOrCreateToday on: the
\* change of the loaded document, record.save() and the response
WaterSave(c) ==
    /\ inflight[c].pc = "loaded"
    /\ inflight' = [inflight EXCEPT ![c] = NoCall]
    /\ LET u      == inflight[c].user
           req    == inflight[c].req
           loaded == inflight[c].record
           stored == CHOOSE r \in water : r.user = u /\ r.date = loaded.date
           write(saved, status, total) ==
               /\ water' = (water \ {stored}) \cup {saved}
               /\ resp' = [op |-> req.op, user |-> u, status |-> status, totalMl |-> total]
       IN  CASE req.op \in {"addEntry", "quickAdd"} ->
                   /\ nextId <= MaxEntries
                   /\ nextId' = nextId + 1
                   /\ LET entry == [id |-> nextId, amount |-> req.entry.amount,
                                    unit |-> req.entry.unit]
                      IN  write(SaveRecord(stored, loaded, <<entry>>, FALSE, loaded.target),
                                201, SumMl(loaded.entries \o <<entry>>))
             [] req.op = "deleteEntry" ->
                   /\ UNCHANGED nextId
                   /\ IF \A i \in 1..Len(loaded.entries) : loaded.entries[i].id # req.entryId
                         THEN /\ resp' = [op |-> req.op, user |-> u, status |-> 404,
                                          totalMl |-> loaded.totalMl]
                              /\ UNCHANGED water
                      ELSE IF stored.version # loaded.version
                         THEN /\ resp' = [op |-> req.op, user |-> u, status |-> 500,
                                          totalMl |-> loaded.totalMl]
                              /\ UNCHANGED water
                      ELSE write(SaveRecord(stored, loaded, Splice(loaded.entries, req.entryId),
                                            TRUE, loaded.target),
                                 200, SumMl(Splice(loaded.entries, req.entryId)))
             [] req.op = "updateTarget" ->
                   /\ UNCHANGED nextId
                   /\ write(SaveRecord(stored, loaded, <<>>, FALSE, req.target),
                            200, SumMl(loaded.entries))
    /\ UNCHANGED <<users, meals, tz, now, pending, issued, authStore, cache>>

InitWater ==
    /\ users = [u \in Users |-> DefaultUser]
    /\ meals = {}
    /\ nextId = 1
    /\ tz = 0
    /\ now = Now0
    /\ resp = NoResp
    /\ pending = NoCall
    /\ cache = EmptyCache
    /\ inflight = [c \in Clients |-> NoCall]
    /\ issued = {}
    /\ authStore = InitialAuthState
    /\ water = {}

NextWater ==
    \/ \E c \in Clients, req \in WaterRequests : WaterFind(c, "u1", req)
    \/ \E c \in Clients : WaterCreate(c)
    \/ \E c \in Clients : WaterSave(c)

SpecWater == InitWater /\ [][NextWater]_vars

-----------------------------------------------------------------------------
(* Properties: the stored water total (checked under SpecWater)            *)

\* C29: after any sequence or interleaving of addEntry, quickAdd, deleteEntry
\* and updateTarget requests of one user, the stored totalMl of today's water
\* record equals the sum of its stored entries converted to millilitres
\* (ml x 1, glass x 250, bottle x 500, liter x 1000).
C29_TotalIsSum ==
    \A r \in water : r.totalMl = SumMl(r.entries)

-----------------------------------------------------------------------------
(* The dashboard response cache: cacheMiddleware in front of the handlers  *)

\* the default cache key: api:<userId>:<originalUrl>:<JSON of the query>
CacheKey(u, url, query) == <<"api", u, url, query>>

\* cache.get(key): the entries stored under the key (none when Redis is
\* unavailable or the key is absent)
CacheGet(key) ==
    IF cache.isConnected THEN {e \in cache.entries : e.key = key} ELSE {}

\* cache.set(key, data, ttl): the entry of the key replaced
CacheSet(key, data) ==
    IF cache.isConnected
        THEN [cache EXCEPT !.entries =
                  {e \in cache.entries : e.key # key} \cup {[key |-> key, data |-> data]}]
        ELSE cache

\* cacheMiddleware around a handler whose response would be data: the body
\* sent, the X-Cache header and the cache afterwards
CachedResponse(key, data) ==
    IF CacheGet(key) # {}
        THEN [body |-> (CHOOSE e \in CacheGet(key) : TRUE).data, xCache |-> "HIT",
              cache |-> cache]
        ELSE [body |-> data, xCache |-> IF cache.isConnected THEN "MISS" ELSE "none",
              cache |-> CacheSet(key, data)]

\* the data getTodaySummary sends: today's summary and the user's targets
TodaySummaryData(u) ==
    [consumed |-> getDailySummary(meals, tz, u, StartOfDay(now, tz)),
     targets  |-> users[u].dailyTargets]

\* GET /api/dashboard/today behind dashboardCache
CachedGetToday(u) ==
    /\ LET sent == CachedResponse(CacheKey(u, "/api/dashboard/today", "absent"),
                                  TodaySummaryData(u))
       IN  /\ cache' = sent.cache
           /\ resp' = [op |-> "getTodaySummary", user |-> u, query |-> "absent",
                       status |-> 200, body |-> sent.body, xCache |-> sent.xCache]
    /\ UNCHANGED <<users, meals, nextId, tz, now, pending, inflight, issued, authStore, water>>

\* GET /api/dashboard/trends behind trendsCache
CachedGetTrends(u, q) ==
    /\ LET sent == CachedResponse(CacheKey(u, "/api/dashboard/trends", q),
                                  getCalorieTrends(meals, tz, now, u, q))
       IN  /\ cache' = sent.cache
           /\ resp' = [op |-> "getTrends", user |-> u, query |-> q,
                       status |-> 200, body |-> sent.body, xCache |-> sent.xCache]
    /\ UNCHANGED <<users, meals, nextId, tz, now, pending, inflight, issued, authStore, water>>

\* the ttl of an entry runs out: Redis drops it
CacheExpire(key) ==
    /\ CacheGet(key) # {}
    /\ cache' = [cache EXCEPT !.entries = {e \in cache.entries : e.key # key}]
    /\ UNCHANGED <<users, meals, nextId, tz, now, resp, pending, inflight, issued, authStore, water>>

InitCache ==
    /\ users = [u \in Users |-> DefaultUser]
    /\ meals = {}
    /\ nextId = 1
    /\ tz = 0
    /\ now = Now0
    /\ resp = NoResp
    /\ pending = NoCall
    /\ inflight = [c \in Clients |-> NoCall]
    /\ issued = {}
    /\ authStore = InitialAuthState
    /\ water = {}
    /\ cache \in {[isConnected |-> b, entries |-> {}] : b \in BOOLEAN}

NextCache ==
    \/ \E n \in MealNutritions : nextId <= MaxMeals + 1 /\ CreateMeal("u1", "lunch", n, Now0 - 3)
    \/ \E id \in MealIds : UpdateMeal("u1", id, [mealType |-> "dinner"])
    \/ \E id \in MealIds : DeleteMeal("u1", id)
    \/ CachedGetToday("u1")
    \/ CachedGetTrends("u1", "7d")
    \/ \E e \in cache.entries : CacheExpire(e.key)

SpecCache == InitCache /\ [][NextCache]_vars

-----------------------------------------------------------------------------
(* Properties: read-your-writes through the cache (checked under SpecCache) *)

\* C30: a GET on /api/dashboard/today or /api/dashboard/trends that starts
\* after a createMeal, updateMeal or deleteMeal of the same user has completed
\* returns data that include the change, never a response cached before it:
\* the body sent is the one the handler computes from the store as it is.
C30_ReadYourWrites ==
    /\ resp.op = "getTodaySummary" => resp.body = TodaySummaryData(resp.user)
    /\ resp.op = "getTrends"
          => resp.body = getCalorieTrends(meals, tz, now, resp.user, resp.query)

====
